---- MODULE Spec2Model ----
(***************************************************************************)
(* A model of the client-side logic of the task-management application:    *)
(*   - the session store (signIn, signUp, signOut, loadUser) of            *)
(*     src/123456-main/src/store/AppSettingStore.ts, with PrivateRoute and *)
(*     Layout.handleSignOut;                                               *)
(*   - the attachment upload paths (CreateTaskModal, the two               *)
(*     TaskDetailsModal components);                                       *)
(*   - the live views (Layout counts, TaskChat, Messages, user search):    *)
(*     change-feed subscriptions and the fetches they issue.               *)
(* Every `await` of the source is a point where other handlers may run, so *)
(* each asynchronous function is a small process: one action per segment   *)
(* of code between two awaits.  A backend call takes effect and returns in *)
(* the step that resumes its caller; its outcome is chosen by \E.          *)
(***************************************************************************)
EXTENDS Integers, Sequences, FiniteSets, TLC

VARIABLES
    \* ---- session store and its backend
    user,        \* useAuthStore.user: a profile id or NoUser
    loading,     \* useAuthStore.loading
    session,     \* the auth client's persisted session: a user id or NoSession
    identities,  \* auth identities that exist in the backend
    profiles,    \* ids that have a row in table profiles
    location,    \* the router's current path
    calls,       \* number of store calls started so far (bounded by MaxCalls)
    si,          \* the signIn call
    su,          \* the signUp call
    so,          \* the signOut call
    lu,          \* the loadUser call
    \* ---- attachment upload (one batch of selected files at a time)
    upPath,      \* the component running the batch
    upFiles,     \* number of selected files; the files are 1..upFiles
    storageOk,   \* per file: does the storage bucket accept its bytes
    insertRes,   \* per file: what the insert into table attachments does
    fpc,         \* per file: where its pipeline stands
    flog,        \* per file: the backend steps performed for it, in order
    stored,      \* files whose bytes are in the bucket
    rows,        \* files that have a row in table attachments
    taskRow,     \* CreateTaskModal: the task row exists in table tasks
    batch,       \* what the handler has reported: idle, creating, running, ok, error
    notified,    \* the parent's onTaskCreated / fetchAttachments was called
    upBatches,   \* number of batches started so far (bounded by MaxBatches)
    \* ---- live views: Layout, TaskChat, Messages, the user search field
    me,          \* the id of the signed-in user the views render for, or NoKey
    field,       \* which search field the debounced search serves, or NoKey
    opened,      \* the views the user opens in this behaviour
    mounted,     \* per view: is it mounted
    key,         \* per view: the identifier its effects are keyed on
    data,        \* per state slot: the identifier its content was fetched for
    subs,        \* open change-feed subscriptions
    inflight,    \* backend queries that have not returned yet
    timer,       \* the pending debounce timer of the search field, or NoKey
    evTick,      \* flips with every change-feed event
    \* ---- task modals: CreateTaskModal and the two TaskDetailsModal
    modal,       \* the modal that is (or was last) open
    actor,       \* the signed-in user of the modal: role and id
    task,        \* the task prop of the details modal
    form,        \* the form state of the details modal
    newFiles,    \* are files selected for upload with the submit
    edits,       \* changes made to the form since the modal opened
    hpc,         \* where the modal's handler stands
    handler,     \* the handler that ran last; "none" once the user acted again
    sent,        \* the request that handler sent to table tasks, or NoRequest
    report,      \* the error or success message the modal shows
    mutated,     \* the handler's request changed table tasks
    refetched,   \* the handler called the page's onTask... callback (fetchTasks)
    \* ---- Layout header: NotificationsDropdown and ThemeToggle
    notifications,  \* NotificationsDropdown's list: records [id, read]
    notifRows,      \* table notifications of the user: per id unread, read or gone
    notifPending,   \* the dropdown's requests that have not returned yet
    lastMark,       \* the markAsRead call that returned last: its id and outcome
    darkMode,       \* ThemeToggle's state
    darkStored,     \* localStorage item 'darkMode', or NoItem
    darkClass,      \* does document.documentElement carry class 'dark'
    themeMounted,   \* is ThemeToggle mounted
    lastSet,        \* <<the mode the last toggle set>>, or NoMode
    \* ---- useAppSettingsStore
    appName, primaryColor, logoUrl,
    settingsLoading,  \* the store's loading flag
    appRows,          \* table app_settings: its rows, a row's id is its index
    usPc,             \* position of the updateSettings call
    usArg,            \* its argument
    existingData,     \* the id of the row its existence check returned, or NoRow
    updatedSettings,  \* the object it writes, or NoSettings
    usReply,          \* the backend's last reply to the call
    usOutcome,        \* pending, resolved or rejected (rethrown)
    lsPc,             \* position of the loadSettings call
    \* ---- Statistics page
    tasksTable,       \* table tasks: created_at of each task, as <<year, month>> or NoDate
    statsData,        \* the rows fetchStatistics got last
    timeStats,        \* the page's timeStats
    \* ---- Teams page: handleCreateTeam
    teams,            \* table teams: rows [id, created_by]
    teamMembers,      \* table team_members: rows [team_id, user_id, role]
    ctPc,             \* position of handleCreateTeam
    teamId,           \* teamData[0].id of the running call, 0 before
    selectedMembers,  \* the members chosen in the create modal
    teamError,        \* the page's error text
    teamsLoading,     \* the page's loading flag
    \* ---- updateSettings running in another browser session
    otherPc,          \* position of that session's updateSettings call
    otherExisting,    \* the row its existence check returned, or NoRow
    \* ---- useAuthStore.updateProfile, and what the store calls have done so far
    up,               \* the updateProfile call: its position and the user it read
    signedOut,        \* a signOut has completed and no call has set a user since
    luFirst,          \* a loadUser call in flight now was in flight when signIn was called
    overlapped,       \* signIn succeeded while that loadUser call was in flight
    \* ---- Layout's unread counts and the rows they count
    counter,          \* the count followed: unreadNotifications or unreadMessages
    unreadRows,       \* backend: number of unread rows of the user in its table
    feed,             \* change events of the table not yet delivered to Layout
    countSent,        \* count fetches sent and not yet evaluated by the backend
    answers,          \* responses on their way back: how many carry each count / an error
    shown,            \* the count in Layout's state
    fetchFailed       \* a count fetch has failed so far

authVars == <<user, loading, session, identities, profiles, location, calls,
              si, su, so, lu>>

uploadVars == <<upPath, upFiles, storageOk, insertRes, fpc, flog, stored, rows,
                taskRow, batch, notified, upBatches>>

liveVars == <<me, opened, mounted, field, key, data, subs, inflight, timer, evTick>>

taskVars == <<modal, actor, task, form, newFiles, edits, hpc, handler, sent, report,
              mutated, refetched>>

headerVars == <<notifications, notifRows, notifPending, lastMark,
                darkMode, darkStored, darkClass, themeMounted, lastSet>>

storeFields == <<appName, primaryColor, logoUrl>>

settingsVars == <<appName, primaryColor, logoUrl, settingsLoading, appRows, usPc, usArg,
                  existingData, updatedSettings, usReply, usOutcome, lsPc>>

statsVars == <<tasksTable, statsData, timeStats>>

countVars == <<counter, unreadRows, feed, countSent, answers, shown, fetchFailed>>

raceVars == <<up, signedOut, luFirst, overlapped>>

sessionVars == <<otherPc, otherExisting>>

teamsVars == <<teams, teamMembers, ctPc, teamId, selectedMembers, teamError, teamsLoading>>

vars == <<authVars, uploadVars, liveVars, taskVars, headerVars, settingsVars, statsVars,
         teamsVars,
         sessionVars,
         raceVars,
         countVars>>

\* ------------------------------------------------------------------ bounds

\* Store calls started in one behaviour.
MaxCalls == 2

\* Files selected for one upload batch, and batches started in one behaviour.
MaxFiles == 3
MaxBatches == 2

\* Backend queries of the live views in flight at once.
MaxInflight == 2

\* Changes the user makes to the fields of one task form.
MaxEdits == 2

\* Notifications of the signed-in user.
MaxNotifs == 2

\* Rows of table tasks.
MaxTasks == 3

\* Rows of table teams.
MaxTeams == 2

\* Unread rows of the user in table notifications (or messages).
MaxUnread == 2

\* ------------------------------------------------------------ program values

MaxRetries == 3

NoUser == "none"
NoSession == "none"
Uids == {"u1", "u2"}

Err(cls, msg) == [cls |-> cls, msg |-> msg]
NoErr == Err("none", "")

NoResult == [st |-> "none", err |-> NoErr]
Resolved == [st |-> "resolved", err |-> NoErr]
Rejected(e) == [st |-> "rejected", err |-> e]

\* What supabase.auth.signInWithPassword / signUp can fail with: an AuthError
\* returned in {error}, or an exception.
SignInFailures ==
    { Err("AuthError", "Invalid login credentials"),
      Err("AuthError", "Auth service unavailable"),
      Err("Error", "Failed to fetch") }

SignUpFailures ==
    { Err("AuthError", "User already registered"),
      Err("AuthError", "Auth service unavailable") }

\* What a query on table profiles can fail with: a PostgrestError returned in
\* {error} (its message may be empty) or an exception thrown by the client.
ProfileFailures ==
    { Err("PostgrestError", "row not found"),
      Err("PostgrestError", ""),
      Err("Error", "Failed to fetch") }

\* supabase.auth.signOut resolves without error, resolves with {error}, or rejects.
SignOutOutcomes ==
    { [kind |-> "ok", err |-> NoErr],
      [kind |-> "error", err |-> Err("AuthError", "sign out failed")],
      [kind |-> "throws", err |-> Err("Error", "sign out threw")] }

\* The client drops its session only when the remote sign-out succeeded.
SessionAfterSignOut(o, s) == IF o.kind = "ok" THEN NoSession ELSE s

\* ------------------------------------------------------------- retry policy

\* `if (retryCount < maxRetries)` after retryCount++.
ShouldRetry(retryCount) == retryCount < MaxRetries

\* A variant with a constant delay instead of the linear backoff.
BackoffDelayConstant(retryCount) == 1000

\* `setTimeout(resolve, 1000 * retryCount)`.
BackoffDelay(retryCount) == 1000 * retryCount

\* `lastError?.message || fallback`.
FailMessage(lastError, fallback) ==
    IF lastError.msg # "" THEN lastError.msg ELSE fallback

IdleCall ==
    [pc |-> "idle", uid |-> NoUser, retryCount |-> 0, lastError |-> NoErr,
     caught |-> NoErr, attempts |-> 0, waits |-> <<>>, issued |-> {},
     remote |-> "none", caller |-> "none", result |-> NoResult]

StartCall(pc0, call0) ==
    [IdleCall EXCEPT !.pc = pc0, !.issued = {call0}]

\* The call settles: its locals are gone, its outcome stays visible to the caller.
Finish(c, res) ==
    [IdleCall EXCEPT !.result = res, !.issued = c.issued, !.remote = c.remote,
                     !.caller = c.caller]

\* One failed attempt of a retry loop: lastError = e; retryCount++; then either
\* sleep BackoffDelay and try again, or leave the loop (pc becomes `exhausted`).
AttemptFailed(c, e, exhausted) ==
    LET n == c.retryCount + 1 IN
    IF ShouldRetry(n)
    THEN [c EXCEPT !.lastError = e, !.retryCount = n, !.pc = "sleep",
                   !.waits = Append(@, BackoffDelay(n))]
    ELSE [c EXCEPT !.lastError = e, !.retryCount = n, !.pc = exhausted]

\* The backoff timer fires and the loop issues the next attempt.
NextAttempt(c, pcAttempt) ==
    [c EXCEPT !.pc = pcAttempt, !.attempts = @ + 1]

\* ------------------------------------------------------------------- signIn

\* The classification at the end of signIn's catch block.
SignInSurface(e) ==
    IF e.cls = "AuthError" /\ e.msg = "Invalid login credentials"
    THEN Err("Error", "Invalid email or password")
    ELSE IF e.cls = "PostgrestError"
         THEN Err("Error", "Database error occurred")
         ELSE e

SignInCall ==
    /\ si.pc = "idle"
    /\ calls < MaxCalls
    /\ calls' = calls + 1
    /\ si' = StartCall("auth", "auth.signInWithPassword")
    /\ UNCHANGED <<user, loading, session, identities, profiles, location, su, so, lu>>

\* signInWithPassword returned: an error or no session throws into the catch
\* block, which first awaits supabase.auth.signOut().
SignInAuthReturn ==
    /\ si.pc = "auth"
    /\ \/ \E e \in SignInFailures \cup {Err("Error", "No session after sign in")} :
            /\ si' = [si EXCEPT !.pc = "catchSignOut", !.caught = e,
                                !.issued = @ \cup {"auth.signOut"}]
            /\ UNCHANGED session
       \/ \E u \in identities :
            /\ session' = u
            /\ si' = [si EXCEPT !.pc = "fetch", !.uid = u, !.attempts = 1,
                                !.issued = @ \cup {"profiles.select"}]
    /\ UNCHANGED <<user, loading, identities, profiles, location, calls, su, so, lu>>

\* A profile fetch of the retry loop returned.
SignInFetchReturn ==
    /\ si.pc = "fetch"
    /\ \/ /\ si.uid \in profiles
          /\ user' = si.uid
          /\ si' = Finish(si, Resolved)
       \/ \E e \in ProfileFailures :
            /\ LET c == AttemptFailed(si, e, "signOut") IN
               si' = IF c.pc = "signOut"
                     THEN [c EXCEPT !.issued = @ \cup {"auth.signOut"}]
                     ELSE c
            /\ UNCHANGED user
    /\ UNCHANGED <<loading, session, identities, profiles, location, calls, su, so, lu>>

SignInSleepDone ==
    /\ si.pc = "sleep"
    /\ si' = NextAttempt(si, "fetch")
    /\ UNCHANGED <<user, loading, session, identities, profiles, location, calls, su, so, lu>>

\* The sign-out issued after the loop gave up returned: throw
\* new Error(lastError?.message || 'Failed to load profile'); if the sign-out
\* itself threw, that exception is what reaches the catch block.
SignInSignOutReturn ==
    /\ si.pc = "signOut"
    /\ \E o \in SignOutOutcomes :
         /\ session' = SessionAfterSignOut(o, session)
         /\ si' = [si EXCEPT
                     !.pc = "catchSignOut",
                     !.caught = IF o.kind = "throws" THEN o.err
                                ELSE Err("Error", FailMessage(si.lastError, "Failed to load profile"))]
    /\ UNCHANGED <<user, loading, identities, profiles, location, calls, su, so, lu>>

\* The catch block after `await supabase.auth.signOut()`: set({ user: null })
\* and rethrow the classified error; nothing of it runs if the sign-out threw.
SignInCatchSettle(o, e, u) ==
    IF o.kind = "throws"
    THEN [user |-> u, result |-> Rejected(o.err)]
    ELSE [user |-> NoUser, result |-> Rejected(SignInSurface(e))]

SignInCatchReturn ==
    /\ si.pc = "catchSignOut"
    /\ \E o \in SignOutOutcomes :
         LET s == SignInCatchSettle(o, si.caught, user) IN
         /\ session' = SessionAfterSignOut(o, session)
         /\ user' = s.user
         /\ si' = Finish(si, s.result)
    /\ UNCHANGED <<loading, identities, profiles, location, calls, su, so, lu>>

SignInStep ==
    \/ SignInAuthReturn
    \/ SignInFetchReturn
    \/ SignInSleepDone
    \/ SignInSignOutReturn
    \/ SignInCatchReturn

\* ------------------------------------------------------------------- signUp

\* The classification in signUp's catch block.
SignUpSurface(e) ==
    IF e.cls = "AuthError" /\ e.msg = "User already registered"
    THEN Err("Error", "Email already registered")
    ELSE e

SignUpCall ==
    /\ su.pc = "idle"
    /\ calls < MaxCalls
    /\ calls' = calls + 1
    /\ su' = StartCall("auth", "auth.signUp")
    /\ UNCHANGED <<user, loading, session, identities, profiles, location, si, so, lu>>

\* supabase.auth.signUp returned.  On success the identity exists from now on
\* (and the client may hold a session for it, when sign-ups are auto-confirmed);
\* the first profile insert is issued.
SignUpAuthReturn ==
    /\ su.pc = "auth"
    /\ \/ \E e \in SignUpFailures \cup {Err("Error", "No user data after sign up")} :
            /\ su' = Finish(su, Rejected(SignUpSurface(e)))
            /\ UNCHANGED <<identities, session>>
       \/ \E u \in Uids \ identities :
            /\ identities' = identities \cup {u}
            /\ session' \in {session, u}
            /\ su' = [su EXCEPT !.pc = "insert", !.uid = u, !.attempts = 1,
                                !.issued = @ \cup {"profiles.insert"}]
    /\ UNCHANGED <<user, loading, profiles, location, calls, si, so, lu>>

\* A variant that compensates: signs out and deletes the identity it created.
SignUpExhaustedRollback(c) ==
    /\ su' = Finish([c EXCEPT !.issued = @ \cup {"auth.signOut", "auth.admin.deleteUser"}],
                    Rejected(SignUpSurface(
                 Err("Error", FailMessage(c.lastError, "Failed to create profile")))))
    /\ identities' = identities \ {c.uid}
    /\ session' = NoSession
    /\ user' = NoUser

\* The retry loop gave up: `throw new Error(lastError?.message || 'Failed to
\* create profile')`, rethrown by the catch block.  Nothing is undone.
SignUpExhausted(c) ==
    /\ su' = Finish(c, Rejected(SignUpSurface(
                 Err("Error", FailMessage(c.lastError, "Failed to create profile")))))
    /\ UNCHANGED <<user, session, identities>>

\* A profile insert of the retry loop returned.
SignUpInsertReturn ==
    /\ su.pc = "insert"
    /\ \/ /\ profiles' = profiles \cup {su.uid}
          /\ su' = Finish(su, Resolved)
          /\ UNCHANGED <<user, session, identities>>
       \/ \E e \in ProfileFailures :
            LET c == AttemptFailed(su, e, "exhausted") IN
            /\ UNCHANGED profiles
            /\ IF c.pc = "exhausted"
               THEN SignUpExhausted(c)
               ELSE su' = c /\ UNCHANGED <<user, session, identities>>
    /\ UNCHANGED <<loading, location, calls, si, so, lu>>

SignUpSleepDone ==
    /\ su.pc = "sleep"
    /\ su' = NextAttempt(su, "insert")
    /\ UNCHANGED <<user, loading, session, identities, profiles, location, calls, si, so, lu>>

SignUpStep ==
    \/ SignUpAuthReturn
    \/ SignUpInsertReturn
    \/ SignUpSleepDone

\* ------------------------------------------------------------------ signOut

\* signOut called by ProfileDropdown or through Layout.handleSignOut,
\* which awaits it and then navigates.
SignOutCall ==
    /\ so.pc = "idle"
    /\ calls < MaxCalls
    /\ calls' = calls + 1
    /\ \E who \in {"ProfileDropdown", "Layout.handleSignOut"} :
         /\ who = "Layout.handleSignOut" => location # "/login"
         /\ so' = [StartCall("remote", "auth.signOut") EXCEPT !.caller = who]
    /\ UNCHANGED <<user, loading, session, identities, profiles, location, si, su, lu>>

\* A variant without the try/catch/finally: an exception skips the set.
SignOutSettleUnguarded(o, u) ==
    IF o.kind = "throws"
    THEN [user |-> u, result |-> Rejected(o.err)]
    ELSE [user |-> NoUser, result |-> Resolved]

\* try { await supabase.auth.signOut() } catch { log } finally { set({user: null}) }
SignOutSettle(o, u) == [user |-> NoUser, result |-> Resolved]

\* handleSignOut: `await signOut(); navigate('/login')`.
AfterSignOut(caller, result, loc) ==
    IF caller = "Layout.handleSignOut" /\ result.st = "resolved" THEN "/login" ELSE loc

SignOutReturn ==
    /\ so.pc = "remote"
    /\ \E o \in SignOutOutcomes :
         LET s == SignOutSettle(o, user) IN
         /\ session' = SessionAfterSignOut(o, session)
         /\ user' = s.user
         /\ so' = Finish([so EXCEPT !.remote = o.kind], s.result)
         /\ location' = AfterSignOut(so.caller, s.result, location)
    /\ UNCHANGED <<loading, identities, profiles, calls, si, su, lu>>

\* ----------------------------------------------------------------- loadUser

LoadUserCall ==
    /\ lu.pc = "idle"
    /\ calls < MaxCalls
    /\ calls' = calls + 1
    /\ lu' = StartCall("getSession", "auth.getSession")
    /\ UNCHANGED <<user, loading, session, identities, profiles, location, si, su, so>>

\* supabase.auth.getSession returned the persisted session, or threw.
LoadUserSessionReturn ==
    /\ lu.pc = "getSession"
    /\ \/ /\ session = NoSession
          /\ user' = NoUser
          /\ loading' = FALSE
          /\ lu' = Finish(lu, Resolved)
       \/ /\ session # NoSession
          /\ lu' = [lu EXCEPT !.pc = "fetch", !.uid = session, !.attempts = 1,
                              !.issued = @ \cup {"profiles.select"}]
          /\ UNCHANGED <<user, loading>>
       \/ /\ lu' = [lu EXCEPT !.pc = "catchSignOut",
                              !.caught = Err("Error", "getSession threw"),
                              !.issued = @ \cup {"auth.signOut"}]
          /\ UNCHANGED <<user, loading>>
    /\ UNCHANGED <<session, identities, profiles, location, calls, si, su, so>>

LoadUserFetchReturn ==
    /\ lu.pc = "fetch"
    /\ \/ /\ lu.uid \in profiles
          /\ user' = lu.uid
          /\ loading' = FALSE
          /\ lu' = Finish(lu, Resolved)
       \/ \E e \in ProfileFailures :
            /\ LET c == AttemptFailed(lu, e, "signOut") IN
               lu' = IF c.pc = "signOut"
                     THEN [c EXCEPT !.issued = @ \cup {"auth.signOut"}]
                     ELSE c
            /\ UNCHANGED <<user, loading>>
    /\ UNCHANGED <<session, identities, profiles, location, calls, si, su, so>>

LoadUserSleepDone ==
    /\ lu.pc = "sleep"
    /\ lu' = NextAttempt(lu, "fetch")
    /\ UNCHANGED <<user, loading, session, identities, profiles, location, calls, si, su, so>>

\* The sign-out after the loop gave up returned: set({user: null, loading:
\* false}) and return; an exception goes to the catch block, which awaits
\* supabase.auth.signOut() once more.
LoadUserSignOutReturn ==
    /\ lu.pc = "signOut"
    /\ \E o \in SignOutOutcomes :
         /\ session' = SessionAfterSignOut(o, session)
         /\ IF o.kind = "throws"
            THEN /\ lu' = [lu EXCEPT !.pc = "catchSignOut", !.caught = o.err]
                 /\ UNCHANGED <<user, loading>>
            ELSE /\ user' = NoUser
                 /\ loading' = FALSE
                 /\ lu' = Finish(lu, Resolved)
    /\ UNCHANGED <<identities, profiles, location, calls, si, su, so>>

\* The catch block after `await supabase.auth.signOut()`: set({user: null,
\* loading: false}); if the sign-out threw, loadUser rejects before the set.
LoadUserCatchSettle(o, u, l) ==
    IF o.kind = "throws"
    THEN [user |-> u, loading |-> l, result |-> Rejected(o.err)]
    ELSE [user |-> NoUser, loading |-> FALSE, result |-> Resolved]

LoadUserCatchReturn ==
    /\ lu.pc = "catchSignOut"
    /\ \E o \in SignOutOutcomes :
         LET s == LoadUserCatchSettle(o, user, loading) IN
         /\ session' = SessionAfterSignOut(o, session)
         /\ user' = s.user
         /\ loading' = s.loading
         /\ lu' = Finish(lu, s.result)
    /\ UNCHANGED <<identities, profiles, location, calls, si, su, so>>

LoadUserStep ==
    \/ LoadUserSessionReturn
    \/ LoadUserFetchReturn
    \/ LoadUserSleepDone
    \/ LoadUserSignOutReturn
    \/ LoadUserCatchReturn

\* ------------------------------------------------------------- PrivateRoute

\* PrivateRoute on a private path: a spinner while loading, a redirect to
\* /login without a user, the children otherwise.
PrivateRouteRedirect ==
    /\ location # "/login"
    /\ ~loading
    /\ user = NoUser
    /\ location' = "/login"
    /\ UNCHANGED <<user, loading, session, identities, profiles, calls, si, su, so, lu>>

\* The signed-in user opens a private path again.
OpenPrivatePath ==
    /\ location = "/login"
    /\ user # NoUser
    /\ location' = "/"
    /\ UNCHANGED <<user, loading, session, identities, profiles, calls, si, su, so, lu>>

\* ------------------------------------------------------------ updateProfile

\* Steps of the store calls, read off two successive states.
SignInCalled == si.pc = "idle" /\ si'.pc # "idle"
SignInSucceeds == si.pc # "idle" /\ si'.pc = "idle" /\ si'.result = Resolved
SignOutFinishes == so.pc # "idle" /\ so'.pc = "idle"
LoadUserFinishes == lu.pc # "idle" /\ lu'.pc = "idle"
SetsUser == user' # NoUser /\ (si' # si \/ su' # su \/ lu' # lu)

\* What has happened so far, recorded along the steps of signIn, signUp,
\* signOut and loadUser.
Recorded ==
    /\ signedOut' = IF SignOutFinishes THEN TRUE
                    ELSE IF SetsUser THEN FALSE ELSE signedOut
    /\ luFirst' = IF SignInCalled THEN lu.pc # "idle"
                  ELSE IF LoadUserFinishes THEN FALSE ELSE luFirst
    /\ overlapped' = IF SignInSucceeds THEN luFirst /\ lu.pc # "idle"
                     ELSE IF LoadUserFinishes \/ SignOutFinishes \/ SignInCalled THEN FALSE
                     ELSE overlapped

IdleUpdate == [pc |-> "idle", user |-> NoUser]

\* updateProfile is called with a user in the store: `const { user } = get()`,
\* then the update of the profile row is sent.
UpdateProfileCall ==
    /\ up.pc = "idle"
    /\ user # NoUser
    /\ up' = [pc |-> "update", user |-> user]
    /\ UNCHANGED <<authVars, signedOut, luFirst, overlapped>>

\* set({ user: { ...user, ...updates } }) with the user read before the await.
UpdatedUser(read, current) == read

\* The update returned: on an error rethrow, else set the user.
UpdateProfileReturn(ok) ==
    /\ up.pc = "update"
    /\ up' = IdleUpdate
    /\ user' = IF ok THEN UpdatedUser(up.user, user) ELSE user
    /\ UNCHANGED <<loading, session, identities, profiles, location, calls, si, su, so, lu>>
    /\ UNCHANGED <<signedOut, luFirst, overlapped>>

InitRaces ==
    /\ up = IdleUpdate
    /\ signedOut = FALSE
    /\ luFirst = FALSE
    /\ overlapped = FALSE

\* -------------------------------------------------------- attachment upload

CreateTaskModal == "CreateTaskModal"
TasksDetailsModal == "TaskDetailsModal"
DashboardDetailsModal == "Dashboard.TaskDetailsModal"
UploadPaths == {CreateTaskModal, TasksDetailsModal, DashboardDetailsModal}

Files == 1..upFiles

InFlight(f) == fpc[f] \in {"uploading", "inserting"}

\* The files whose upload is issued when the batch starts: all of them under
\* Promise.all(files.map(...)), the first one in the Dashboard modal's for loop.
IssuedAtStart(path, n) ==
    IF path = DashboardDetailsModal THEN {f \in 1..n : f = 1} ELSE 1..n

BeginUploads(path, n) ==
    /\ fpc' = [f \in 1..n |-> IF f \in IssuedAtStart(path, n) THEN "uploading" ELSE "pending"]
    /\ flog' = [f \in 1..n |-> IF f \in IssuedAtStart(path, n) THEN <<"upload">> ELSE <<>>]

\* The user submits: a new selection of n files, each with the backend's
\* answers to its upload and to its metadata insert.  The details modals
\* return at once on an empty selection; CreateTaskModal first inserts the task.
UploadStart ==
    /\ batch \in {"idle", "ok", "error"}
    /\ \A f \in Files : ~InFlight(f)
    /\ upBatches < MaxBatches
    /\ upBatches' = upBatches + 1
    /\ \E path \in UploadPaths, n \in 0..MaxFiles :
         /\ path # CreateTaskModal => n > 0
         /\ upPath' = path
         /\ upFiles' = n
         /\ storageOk' \in [1..n -> BOOLEAN]
         /\ insertRes' \in [1..n -> {"ok", "error", "throws"}]
         /\ stored' = {}
         /\ rows' = {}
         /\ taskRow' = FALSE
         /\ notified' = FALSE
         /\ IF path = CreateTaskModal
            THEN /\ batch' = "creating"
                 /\ fpc' = [f \in 1..n |-> "pending"]
                 /\ flog' = [f \in 1..n |-> <<>>]
            ELSE /\ batch' = "running"
                 /\ BeginUploads(path, n)
    /\ UNCHANGED authVars

\* CreateTaskModal.handleSubmit: the insert into tasks returned.
CreateTaskReturn ==
    /\ batch = "creating"
    /\ \/ /\ batch' = "error"
          /\ UNCHANGED <<taskRow, fpc, flog, notified>>
       \/ /\ taskRow' = TRUE
          /\ IF upFiles > 0
             THEN /\ batch' = "running"
                  /\ BeginUploads(upPath, upFiles)
                  /\ UNCHANGED notified
             ELSE /\ batch' = "ok"
                  /\ notified' = TRUE
                  /\ UNCHANGED <<fpc, flog>>
    /\ UNCHANGED <<upPath, upFiles, storageOk, insertRes, stored, rows, upBatches>>
    /\ UNCHANGED authVars

\* A file's pipeline threw: Promise.all rejects on the first rejection (the for
\* loop is left), and the handler's catch block reports the error; pipelines
\* already issued go on.
FileFailed(f) ==
    /\ fpc' = [fpc EXCEPT ![f] = "failed"]
    /\ batch' = IF batch = "running" THEN "error" ELSE batch
    /\ UNCHANGED notified

\* A file's pipeline finished.  Promise.all resolves once every file has; the
\* for loop goes on to the next file.  Then the success path of the handler runs.
FileDone(f) ==
    LET next == IF upPath = DashboardDetailsModal /\ f < upFiles THEN {f + 1} ELSE {}
        fpc1 == [g \in Files |-> IF g = f THEN "done"
                                 ELSE IF g \in next THEN "uploading" ELSE fpc[g]]
        all  == \A g \in Files : fpc1[g] = "done"
    IN  /\ fpc' = fpc1
        /\ flog' = [g \in Files |-> IF g \in next THEN <<"upload">> ELSE flog[g]]
        /\ batch' = IF batch = "running" /\ all THEN "ok" ELSE batch
        /\ notified' = (notified \/ (batch = "running" /\ all))

\* supabase.storage.from('attachments').upload returned: `if (uploadError)
\* throw uploadError`, else getPublicUrl and the insert into attachments.
UploadReturn(f) ==
    /\ fpc[f] = "uploading"
    /\ IF storageOk[f]
       THEN /\ stored' = stored \cup {f}
            /\ fpc' = [fpc EXCEPT ![f] = "inserting"]
            /\ flog' = [flog EXCEPT ![f] = @ \o <<"getPublicUrl", "insert">>]
            /\ UNCHANGED <<batch, notified>>
       ELSE /\ FileFailed(f)
            /\ UNCHANGED <<stored, flog>>
    /\ UNCHANGED <<upPath, upFiles, storageOk, insertRes, rows, taskRow, upBatches>>
    /\ UNCHANGED authVars

\* The insert into attachments returned.  Its {error} is not looked at; only an
\* exception ends the file's pipeline with a failure.
InsertReturn(f) ==
    /\ fpc[f] = "inserting"
    /\ rows' = IF insertRes[f] = "ok" THEN rows \cup {f} ELSE rows
    /\ IF insertRes[f] = "throws"
       THEN FileFailed(f) /\ UNCHANGED flog
       ELSE FileDone(f)
    /\ UNCHANGED <<upPath, upFiles, storageOk, insertRes, stored, taskRow, upBatches>>
    /\ UNCHANGED authVars

InitUpload ==
    /\ upPath = "none"
    /\ upFiles = 0
    /\ storageOk = <<>>
    /\ insertRes = <<>>
    /\ fpc = <<>>
    /\ flog = <<>>
    /\ stored = {}
    /\ rows = {}
    /\ taskRow = FALSE
    /\ batch = "idle"
    /\ notified = FALSE
    /\ upBatches = 0

NextUpload ==
    \/ UploadStart
    \/ CreateTaskReturn
    \/ \E f \in Files : UploadReturn(f)
    \/ \E f \in Files : InsertReturn(f)

\* --------------------------------------------------------------- live views

Layout == "Layout"
TaskChat == "TaskChat"
Messages == "Messages"
Search == "CreateTaskModal.search"
Views == {Layout, TaskChat, Messages, Search}

\* User ids, task ids, contact ids and search texts are drawn from Keys.
Keys == {"a", "b"}
NoKey == "none"
Empty == ""
\* Sender and receiver of the direct messages of the feed: one received by
\* user a, one sent by user a, one between other people ("x" is an outsider).
Parties == { <<"x", "a">>, <<"a", "b">>, <<"b", "x">> }

AllKinds == {"INSERT", "UPDATE", "DELETE"}

\* The state slot a query's response is written to, and the view that owns it.
SlotOf(what) ==
    CASE what = "notificationCount" -> "Layout.unreadNotifications"
      [] what = "messageCount"      -> "Layout.unreadMessages"
      [] what = "chatMessages"      -> "TaskChat.messages"
      [] what = "chatMessageById"   -> "TaskChat.messages"
      [] what = "directMessages"    -> "Messages.messages"
      [] what = "contacts"          -> "Messages.contacts"
      [] what = "users"             -> "Search.users"

ViewOf(what) ==
    CASE what \in {"notificationCount", "messageCount"} -> Layout
      [] what \in {"chatMessages", "chatMessageById"}   -> TaskChat
      [] what \in {"directMessages", "contacts"}        -> Messages
      [] what = "users"                                 -> Search

Slots == {"Layout.unreadNotifications", "Layout.unreadMessages", "TaskChat.messages",
          "Messages.messages", "Messages.contacts", "Search.users"}

SlotView(slot) ==
    CASE slot \in {"Layout.unreadNotifications", "Layout.unreadMessages"} -> Layout
      [] slot = "TaskChat.messages"                                      -> TaskChat
      [] slot \in {"Messages.messages", "Messages.contacts"}             -> Messages
      [] slot = "Search.users"                                           -> Search

Query(what, k) == [what |-> what, key |-> k]

\* A pending query: what it asks for, for which identifier, and whether the
\* component instance that issued it is still mounted.  Pending queries that
\* agree on all three are numbered 1, 2, ...
Same(r, q, l) == r.what = q.what /\ r.key = q.key /\ r.live = l

Copies(fl, q, l) == Cardinality({r \in fl : Same(r, q, l)})

Issue(fl, qs) ==
    fl \cup { [what |-> q.what, key |-> q.key, live |-> TRUE,
               n |-> Copies(fl, q, TRUE) + 1] : q \in qs }

\* The instance of view v is gone: its pending queries outlive it.
Orphan(fl, v) ==
    LET mine == {r \in fl : ViewOf(r.what) = v /\ r.live} IN
    (fl \ mine) \cup
        { [what |-> r.what, key |-> r.key, live |-> FALSE,
           n |-> Copies(fl, r, FALSE) + r.n] : r \in mine }

\* The event kinds each view subscribes to.
LayoutEvents == AllKinds
\* A variant of TaskChat that listens to every kind of event.
TaskChatEventsAll == AllKinds
TaskChatEvents == {"INSERT"}
MessagesEvents == AllKinds

Sub(v, table, events, k, contact) ==
    [view |-> v, table |-> table, events |-> events, key |-> k, contact |-> contact]

\* The subscriptions the effect of view v opens for identifier k.
SubsOf(v, k, uid) ==
    CASE v = Layout ->
           IF k = NoKey THEN {}
           ELSE { Sub(Layout, "notifications", LayoutEvents, k, NoKey),
                  Sub(Layout, "messages", LayoutEvents, k, NoKey) }
      [] v = TaskChat -> { Sub(TaskChat, "task_chat_messages", TaskChatEvents, k, NoKey) }
      [] v = Messages ->
           IF uid = NoKey THEN {}
           ELSE { Sub(Messages, "messages", MessagesEvents, uid, k) }
      [] v = Search   -> {}

\* The filter of a subscription: user_id=eq.k, receiver_id=eq.k, task_id=eq.k,
\* or(sender_id.eq.user, receiver_id.eq.user).
FilterMatches(sub, ev) ==
    CASE sub.view = Layout /\ sub.table = "notifications" -> ev.key = sub.key
      [] sub.view = Layout /\ sub.table = "messages"      -> ev.key = sub.key
      [] sub.view = TaskChat                              -> ev.key = sub.key
      [] sub.view = Messages -> ev.key = sub.key \/ ev.sender = sub.key

SubMatches(sub, ev) ==
    /\ sub.table = ev.table
    /\ ev.kind \in sub.events
    /\ FilterMatches(sub, ev)

\* What the callback of a subscription does with an event: the queries it issues.
Handler(sub) ==
    CASE sub.view = Layout /\ sub.table = "notifications" ->
           { Query("notificationCount", sub.key) }
      [] sub.view = Layout /\ sub.table = "messages" ->
           { Query("messageCount", sub.key) }
      [] sub.view = TaskChat -> { Query("chatMessageById", sub.key) }
      [] sub.view = Messages ->
           { Query("contacts", sub.key) }
             \cup (IF sub.contact # NoKey THEN { Query("directMessages", sub.contact) } ELSE {})

\* The queries the effects of view v issue when they run for identifier k.
\* (TaskChat's fetchParticipants writes no state and is left out.)
EffectQueries(v, k, uid) ==
    CASE v = Layout ->
           IF k = NoKey THEN {}
           ELSE { Query("notificationCount", k), Query("messageCount", k) }
      [] v = TaskChat -> { Query("chatMessages", k) }
      [] v = Messages ->
           IF uid = NoKey THEN {}
           ELSE IF k = NoKey THEN { Query("contacts", uid) } ELSE { Query("directMessages", k) }
      [] v = Search -> {}

Events ==
    { [table |-> "notifications", kind |-> kd, key |-> k, sender |-> NoKey] :
        kd \in AllKinds, k \in Keys }
    \cup { [table |-> "task_chat_messages", kind |-> kd, key |-> k, sender |-> NoKey] :
        kd \in AllKinds, k \in Keys }
    \cup { [table |-> "messages", kind |-> kd, key |-> p[2], sender |-> p[1]] :
        kd \in AllKinds, p \in Parties }

\* The search fields with a debounced searchUsers effect: the assignee field
\* of CreateTaskModal, and on the Teams page the member field of the
\* create-team modal and the "Add member..." field of the view-team modal.
CreateTaskField == "CreateTaskModal.assignee"
TeamsCreateField == "Teams.createTeam.members"
TeamsViewField == "Teams.viewTeam.addMember"
SearchFields == {CreateTaskField, TeamsCreateField, TeamsViewField}

\* The id of the user who signs in.
Me == "a"

\* The views explored together: Layout and Messages listen to the same table
\* (the /messages route renders both); TaskChat and the search field of
\* CreateTaskModal share nothing with them.
Scopes == { {Layout, Messages}, {TaskChat}, {Search} }

\* The user navigates: the views of one scope are the ones rendered from now on.
OpenPage ==
    /\ opened = {}
    /\ opened' \in Scopes
    /\ UNCHANGED <<field, me, mounted, key, data, subs, inflight, timer, evTick>>
    /\ UNCHANGED <<authVars, uploadVars>>

\* A view mounts: fresh state, and its effects run.  Layout is keyed on the
\* user id, TaskChat on its taskId prop; Messages starts without a selected
\* contact and the search field empty (its effect arms the debounce timer).
Mount(v) ==
    /\ v \in opened
    /\ ~mounted[v]
    /\ \E k \in (CASE v = Layout -> {me} [] v = TaskChat -> Keys
                   [] v = Messages -> {NoKey} [] v = Search -> {Empty}) :
         /\ Cardinality(inflight) + Cardinality(EffectQueries(v, k, me)) <= MaxInflight
         /\ mounted' = [mounted EXCEPT ![v] = TRUE]
         /\ key' = [key EXCEPT ![v] = k]
         /\ data' = [s \in Slots |-> IF SlotView(s) = v THEN NoKey ELSE data[s]]
         /\ subs' = subs \cup SubsOf(v, k, me)
         /\ inflight' = Issue(inflight, EffectQueries(v, k, me))
         /\ timer' = IF v = Search THEN k ELSE timer
    /\ field' \in (IF v = Search THEN SearchFields ELSE {field})
    /\ UNCHANGED <<me, opened, evTick>>
    /\ UNCHANGED <<authVars, uploadVars>>

\* A variant whose cleanup leaves the channel subscribed.
UnmountKeepsChannel(v) ==
    /\ mounted[v]
    /\ mounted' = [mounted EXCEPT ![v] = FALSE]
    /\ key' = [key EXCEPT ![v] = NoKey]
    /\ data' = [s \in Slots |-> IF SlotView(s) = v THEN NoKey ELSE data[s]]
    /\ inflight' = Orphan(inflight, v)
    /\ timer' = IF v = Search THEN NoKey ELSE timer
    /\ field' = IF v = Search THEN NoKey ELSE field
    /\ UNCHANGED <<me, opened, subs, evTick>>
    /\ UNCHANGED <<authVars, uploadVars>>

\* A view unmounts: the effect cleanups unsubscribe and clear the timer; the
\* state of the instance is discarded.  Pending queries are not aborted.
Unmount(v) ==
    /\ mounted[v]
    /\ mounted' = [mounted EXCEPT ![v] = FALSE]
    /\ key' = [key EXCEPT ![v] = NoKey]
    /\ data' = [s \in Slots |-> IF SlotView(s) = v THEN NoKey ELSE data[s]]
    /\ subs' = {sb \in subs : sb.view # v}
    /\ inflight' = Orphan(inflight, v)
    /\ timer' = IF v = Search THEN NoKey ELSE timer
    /\ field' = IF v = Search THEN NoKey ELSE field
    /\ UNCHANGED <<me, opened, evTick>>
    /\ UNCHANGED <<authVars, uploadVars>>

\* Messages.selectContact: the selectedContact effect fetches the messages and
\* the subscription effect is torn down and run again.
SelectContact(k) ==
    /\ mounted[Messages]
    /\ key[Messages] # k
    /\ Cardinality(inflight) + Cardinality(EffectQueries(Messages, k, me)) <= MaxInflight
    /\ key' = [key EXCEPT ![Messages] = k]
    /\ subs' = {sb \in subs : sb.view # Messages} \cup SubsOf(Messages, k, me)
    /\ inflight' = Issue(inflight, EffectQueries(Messages, k, me))
    /\ UNCHANGED <<field, me, opened, mounted, data, timer, evTick>>
    /\ UNCHANGED <<authVars, uploadVars>>

\* A keystroke in the search field: the effect cleanup clears the pending
\* timer and the effect arms a new one for the new text.
TypeQuery(q) ==
    /\ mounted[Search]
    /\ key[Search] # q
    /\ key' = [key EXCEPT ![Search] = q]
    /\ timer' = q
    /\ UNCHANGED <<field, me, opened, mounted, data, subs, inflight, evTick>>
    /\ UNCHANGED <<authVars, uploadVars>>

\* The text makes searchUsers return before its query: it is blank, or (Teams)
\* the create-team modal is not the one that is open.
SkipsQuery(text, f) == text = Empty \/ f = TeamsViewField

\* The debounce timer fires: searchUsers clears the list when it skips the
\* query and queries the profiles otherwise.
TimerFire ==
    /\ timer # NoKey
    /\ timer' = NoKey
    /\ IF SkipsQuery(timer, field)
       THEN /\ data' = [data EXCEPT !["Search.users"] = Empty]
            /\ UNCHANGED inflight
       ELSE /\ Cardinality(inflight) + 1 <= MaxInflight
            /\ inflight' = Issue(inflight, {Query("users", timer)})
            /\ UNCHANGED data
    /\ UNCHANGED <<field, me, opened, mounted, key, subs, evTick>>
    /\ UNCHANGED <<authVars, uploadVars>>

\* The user of the auth store changes (sign-out sets it to null, sign-in to a
\* profile) while views are mounted: the effects that depend on user.id run
\* their cleanup and run again.  Layout re-fetches its counts and re-opens its
\* subscriptions; Messages re-fetches the contacts and re-opens its
\* subscription for the selected contact.  (TaskChat and the search field do
\* not read the user.)
UserChanges(u) ==
    LET layoutQs == IF mounted[Layout] THEN EffectQueries(Layout, u, u) ELSE {}
        contactQs == IF mounted[Messages] /\ u # NoKey THEN { Query("contacts", u) } ELSE {}
        layoutSubs == IF mounted[Layout] THEN SubsOf(Layout, u, u) ELSE {}
        messagesSubs == IF mounted[Messages] THEN SubsOf(Messages, key[Messages], u) ELSE {}
    IN  /\ u # me
        /\ opened \cap {Layout, Messages} # {}
        /\ Cardinality(inflight) + Cardinality(layoutQs \cup contactQs) <= MaxInflight
        /\ me' = u
        /\ key' = IF mounted[Layout] THEN [key EXCEPT ![Layout] = u] ELSE key
        /\ subs' = {sb \in subs : sb.view \notin {Layout, Messages}}
                       \cup layoutSubs \cup messagesSubs
        /\ inflight' = Issue(inflight, layoutQs \cup contactQs)
        /\ UNCHANGED <<field, opened, mounted, data, timer, evTick>>
        /\ UNCHANGED <<authVars, uploadVars>>

\* The queries the callbacks of the open subscriptions issue for an event.
Triggered(ev) == UNION { Handler(sb) : sb \in {s \in subs : SubMatches(s, ev)} }

\* The backend emits a change-feed event; the callback of every subscription
\* it matches runs.
ChangeEvent(ev) ==
    /\ Cardinality(inflight) + Cardinality(Triggered(ev)) <= MaxInflight
    /\ inflight' = Issue(inflight, Triggered(ev))
    /\ evTick' = 1 - evTick
    /\ UNCHANGED <<field, me, opened, mounted, key, data, subs, timer>>
    /\ UNCHANGED <<authVars, uploadVars>>

\* A response is written with the setter of the component instance that issued
\* the query: React drops it once that instance has unmounted.  Nothing else
\* stands between a response and the state.
Applies(r) == mounted[ViewOf(r.what)] /\ r.live

\* A query returns.  An error is logged and nothing is written.  (Of pending
\* queries that differ in their number only, any may be the one that returns:
\* the model takes the one numbered last.)
Response(r, ok) ==
    /\ r \in inflight
    /\ r.n = Copies(inflight, r, r.live)
    /\ inflight' = inflight \ {r}
    /\ data' = IF ok /\ Applies(r)
               THEN [data EXCEPT ![SlotOf(r.what)] = r.key]
               ELSE data
    /\ UNCHANGED <<field, me, opened, mounted, key, subs, timer, evTick>>
    /\ UNCHANGED <<authVars, uploadVars>>

InitLive ==
    /\ me = Me
    /\ field = NoKey
    /\ opened = {}
    /\ mounted = [v \in Views |-> FALSE]
    /\ key = [v \in Views |-> NoKey]
    /\ data = [s \in Slots |-> NoKey]
    /\ subs = {}
    /\ inflight = {}
    /\ timer = NoKey
    /\ evTick = 0

NextLive ==
    \/ OpenPage
    \/ \E v \in Views : Mount(v)
    \/ \E v \in Views : Unmount(v)
    \/ \E u \in {Me, NoKey} : UserChanges(u)
    \/ \E k \in Keys : SelectContact(k)
    \/ \E q \in Keys \cup {Empty} : TypeQuery(q)
    \/ TimerFire
    \/ \E ev \in Events : ChangeEvent(ev)
    \/ \E r \in inflight, ok \in BOOLEAN : Response(r, ok)

\* -------------------------------------------------------------- task modals

\* JavaScript's null and undefined (distinct under !==).
Null == "null"
Undefined == "undefined"

Roles == {"admin", "manager", "worker"}

\* The signed-in user is u1; tasks are created by and assigned to u1 or u2.
Actors == [role : Roles, id : {"u1"}]

\* due_date as stored (ISO) and as the datetime-local input shows it:
\* new Date(task.due_date).toISOString().slice(0, 16).
DueIso == "2024-05-01T10:00:00.000Z"
DueInput == "2024-05-01T10:00"
ToInput(due) == IF due = Null THEN "" ELSE IF due = DueIso THEN DueInput ELSE "Invalid"

Tasks ==
    [title : {"t1"}, description : {Null, "d1"}, status : {"pending"},
     priority : {"low"}, assigned_to : {Null, "u2"}, due_date : {Null, DueIso},
     created_by : {"u1", "u2"}]

NoTask ==
    [title |-> "", description |-> Null, status |-> "pending", priority |-> "low",
     assigned_to |-> Null, due_date |-> Null, created_by |-> Null]

NoActor == [role |-> "none", id |-> Null]

\* What the user can put into each field of the form.  selectedAssignee is a
\* profile (here: its id) or null.
FieldValues ==
    [title |-> {"t1", "t2"}, description |-> {"", "d1"},
     status |-> {"pending", "completed"}, priority |-> {"low", "high"},
     selectedAssignee |-> {Null, "u2"}, dueDate |-> {"", DueInput}]

FormFields == DOMAIN FieldValues

\* useState initial values and the initialisation effect of the details modals.
\* The Tasks-page modal takes the assignee from task.assigned_to_profile; the
\* Dashboard modal starts with none and fetches it (fetchAssignee), and has no
\* due-date field.
FormInit(m, t) ==
    [title |-> t.title,
     description |-> IF t.description = Null THEN "" ELSE t.description,
     status |-> t.status,
     priority |-> t.priority,
     selectedAssignee |-> IF m = TasksDetailsModal THEN t.assigned_to ELSE Null,
     dueDate |-> IF m = TasksDetailsModal THEN ToInput(t.due_date) ELSE ""]

\* selectedAssignee?.id
AssigneeId(f) == IF f.selectedAssignee = Null THEN Undefined ELSE f.selectedAssignee

NoRequest == [op |-> "none", fields |-> {}]

PermissionUpdate == "You do not have permission to update this task"
PermissionDelete == "You do not have permission to delete this task"
NoChanges == "No changes to save"

canEditTask(a, t) == a.role \in {"admin", "manager"} \/ t.assigned_to = a.id
canDeleteTask(a, t) == a.role \in {"admin", "manager"} \/ t.created_by = a.id

\* TaskDetailsModal.handleSubmit: the fields put into updateData.
updateData(a, t, f) ==
    (IF f.status # t.status THEN {"status"} ELSE {})
    \cup (IF a.role \in {"admin", "manager"}
          THEN (IF f.title # t.title THEN {"title"} ELSE {})
               \cup (IF f.description # t.description THEN {"description"} ELSE {})
               \cup (IF f.priority # t.priority THEN {"priority"} ELSE {})
               \cup (IF AssigneeId(f) # t.assigned_to THEN {"assigned_to"} ELSE {})
               \cup (IF f.dueDate # ToInput(t.due_date) THEN {"due_date"} ELSE {})
          ELSE {})

\* Dashboard handleUpdateTask: the object literal passed to update().
DashboardUpdate == {"title", "description", "status", "priority", "assigned_to"}

\* A handler starts: what the last one left behind is cleared.
HandlerStarts(h) ==
    /\ handler' = h
    /\ mutated' = FALSE
    /\ refetched' = FALSE

\* The user clicks a task: the details modal opens for it.  (One modal session
\* per behaviour: opening a modal starts from the same state every time.)
OpenTask ==
    /\ hpc = "closed"
    /\ modal = "none"
    /\ \E m \in {TasksDetailsModal, DashboardDetailsModal}, t \in Tasks, a \in Actors :
         /\ modal' = m
         /\ task' = t
         /\ actor' = a
         /\ form' = FormInit(m, t)
    /\ hpc' = "open"
    /\ handler' = "none"
    /\ sent' = NoRequest
    /\ report' = ""
    /\ newFiles' = FALSE
    /\ edits' = 0
    /\ mutated' = FALSE
    /\ refetched' = FALSE

\* The user clicks "new task": CreateTaskModal opens.
OpenCreate ==
    /\ hpc = "closed"
    /\ modal = "none"
    /\ modal' = CreateTaskModal
    /\ task' = NoTask
    /\ \E a \in Actors : actor' = a
    /\ form' = FormInit(CreateTaskModal, NoTask)
    /\ hpc' = "open"
    /\ handler' = "none"
    /\ sent' = NoRequest
    /\ report' = ""
    /\ newFiles' = FALSE
    /\ edits' = 0
    /\ mutated' = FALSE
    /\ refetched' = FALSE

\* The user changes a field of the details form.
EditField ==
    /\ hpc = "open"
    /\ modal \in {TasksDetailsModal, DashboardDetailsModal}
    /\ edits < MaxEdits
    /\ edits' = edits + 1
    /\ \E fld \in FormFields : \E v \in FieldValues[fld] \ {form[fld]} :
         /\ modal = DashboardDetailsModal => fld # "dueDate"
         /\ form' = [form EXCEPT ![fld] = v]
    /\ handler' = "none"
    /\ sent' = NoRequest
    /\ mutated' = FALSE
    /\ refetched' = FALSE
    /\ UNCHANGED <<modal, actor, task, newFiles, hpc, report>>

\* Dashboard fetchAssignee returned the profile of task.assigned_to.
AssigneeFetched ==
    /\ hpc = "open"
    /\ modal = DashboardDetailsModal
    /\ task.assigned_to # Null
    /\ form.selectedAssignee # task.assigned_to
    /\ form' = [form EXCEPT !.selectedAssignee = task.assigned_to]
    /\ UNCHANGED <<edits, modal, actor, task, newFiles, hpc, handler, sent, report,
                   mutated, refetched>>

\* TaskDetailsModal.handleSubmit (Tasks page), up to its first await.
handleSubmit ==
    /\ hpc = "open"
    /\ modal = TasksDetailsModal
    /\ HandlerStarts("handleSubmit")
    /\ LET upd == updateData(actor, task, form) IN
       IF upd = {}
       THEN /\ report' = IF actor.role \in {"admin", "manager"}
                         THEN NoChanges ELSE PermissionUpdate
            /\ sent' = NoRequest
            /\ UNCHANGED <<hpc, newFiles>>
       ELSE /\ report' = ""
            /\ sent' = [op |-> "update", fields |-> upd]
            /\ hpc' = "updating"
            /\ newFiles' \in BOOLEAN
    /\ UNCHANGED <<edits, modal, actor, task, form>>

\* Dashboard handleUpdateTask, up to its await.
handleUpdateTask ==
    /\ hpc = "open"
    /\ modal = DashboardDetailsModal
    /\ HandlerStarts("handleUpdateTask")
    /\ report' = ""
    /\ sent' = [op |-> "update", fields |-> DashboardUpdate]
    /\ hpc' = "updating"
    /\ UNCHANGED <<edits, modal, actor, task, form, newFiles>>

\* The update returned.  On success the Tasks-page modal uploads the new files
\* (uploadFiles catches its own errors) and then calls onTaskUpdated; the
\* Dashboard modal calls onTaskUpdated and closes.
UpdateReturn(ok) ==
    /\ hpc = "updating"
    /\ IF ok
       THEN /\ mutated' = TRUE
            /\ IF modal = TasksDetailsModal /\ newFiles
               THEN /\ hpc' = "uploading"
                    /\ UNCHANGED <<report, refetched>>
               ELSE /\ hpc' = IF modal = TasksDetailsModal THEN "open" ELSE "closed"
                    /\ report' = IF modal = TasksDetailsModal
                                 THEN "Task updated successfully" ELSE report
                    /\ refetched' = TRUE
       ELSE /\ hpc' = "open"
            /\ report' = "Failed to update task"
            /\ UNCHANGED <<mutated, refetched>>
    /\ UNCHANGED <<edits, modal, actor, task, form, newFiles, handler, sent>>

\* TaskDetailsModal.uploadFiles returned (it never rejects).
UploadFilesReturn ==
    /\ hpc = "uploading"
    /\ modal = TasksDetailsModal
    /\ hpc' = "open"
    /\ newFiles' = FALSE
    /\ report' = "Task updated successfully"
    /\ refetched' = TRUE
    /\ UNCHANGED <<edits, modal, actor, task, form, handler, sent, mutated>>

\* TaskDetailsModal.handleDelete (Tasks page), up to its await.
handleDelete ==
    /\ hpc = "open"
    /\ modal = TasksDetailsModal
    /\ HandlerStarts("handleDelete")
    /\ IF canDeleteTask(actor, task)
       THEN /\ sent' = [op |-> "delete", fields |-> {}]
            /\ hpc' = "deleting"
            /\ UNCHANGED report
       ELSE /\ sent' = NoRequest
            /\ report' = PermissionDelete
            /\ UNCHANGED hpc
    /\ UNCHANGED <<edits, modal, actor, task, form, newFiles>>

\* Dashboard handleDeleteTask, up to its await: window.confirm, then the delete.
handleDeleteTask(confirmed) ==
    /\ hpc = "open"
    /\ modal = DashboardDetailsModal
    /\ HandlerStarts("handleDeleteTask")
    /\ IF confirmed
       THEN /\ sent' = [op |-> "delete", fields |-> {}]
            /\ hpc' = "deleting"
            /\ report' = ""
       ELSE /\ sent' = NoRequest
            /\ UNCHANGED <<hpc, report>>
    /\ UNCHANGED <<edits, modal, actor, task, form, newFiles>>

\* The delete returned: onTaskDeleted and onClose, or the error is shown.
DeleteReturn(ok) ==
    /\ hpc = "deleting"
    /\ IF ok
       THEN /\ mutated' = TRUE
            /\ refetched' = TRUE
            /\ hpc' = "closed"
            /\ UNCHANGED report
       ELSE /\ hpc' = "open"
            /\ report' = "Failed to delete task"
            /\ UNCHANGED <<mutated, refetched>>
    /\ UNCHANGED <<edits, modal, actor, task, form, newFiles, handler, sent>>

\* CreateTaskModal.handleSubmit, up to the insert into tasks.
handleCreate ==
    /\ hpc = "open"
    /\ modal = CreateTaskModal
    /\ HandlerStarts("handleCreate")
    /\ sent' = [op |-> "insert", fields |-> {}]
    /\ report' = ""
    /\ hpc' = "creating"
    /\ newFiles' \in BOOLEAN
    /\ UNCHANGED <<edits, modal, actor, task, form>>

\* The insert returned: an error, no row, or the new row.  With files selected
\* the uploads run before onTaskCreated.
CreateReturn(res) ==
    /\ hpc = "creating"
    /\ CASE res = "error" ->
              /\ hpc' = "open"
              /\ report' = "Failed to create task"
              /\ UNCHANGED <<mutated, refetched>>
         [] res = "no data" ->
              /\ hpc' = "open"
              /\ report' = "Failed to create task - no data returned"
              /\ UNCHANGED <<mutated, refetched>>
         [] res = "ok" ->
              /\ mutated' = TRUE
              /\ IF newFiles
                 THEN /\ hpc' = "uploading"
                      /\ UNCHANGED refetched
                 ELSE /\ hpc' = "closed"
                      /\ refetched' = TRUE
              /\ UNCHANGED report
    /\ UNCHANGED <<edits, modal, actor, task, form, newFiles, handler, sent>>

\* Promise.all over uploadFile settled: onTaskCreated and handleClose, or the
\* catch block shows the error.
CreateUploadsReturn(ok) ==
    /\ hpc = "uploading"
    /\ modal = CreateTaskModal
    /\ IF ok
       THEN /\ hpc' = "closed"
            /\ refetched' = TRUE
            /\ UNCHANGED report
       ELSE /\ hpc' = "open"
            /\ report' = "Failed to create task"
            /\ UNCHANGED refetched
    /\ UNCHANGED <<edits, modal, actor, task, form, newFiles, handler, sent, mutated>>

\* The user closes the modal.
CloseModal ==
    /\ hpc = "open"
    /\ hpc' = "closed"
    /\ UNCHANGED <<edits, modal, actor, task, form, newFiles, handler, sent, report,
                   mutated, refetched>>

InitTasks ==
    /\ modal = "none"
    /\ actor = NoActor
    /\ task = NoTask
    /\ form = FormInit("none", NoTask)
    /\ newFiles = FALSE
    /\ edits = 0
    /\ hpc = "closed"
    /\ handler = "none"
    /\ sent = NoRequest
    /\ report = ""
    /\ mutated = FALSE
    /\ refetched = FALSE

NextTasks ==
    \/ OpenTask
    \/ OpenCreate
    \/ EditField
    \/ AssigneeFetched
    \/ handleSubmit
    \/ handleUpdateTask
    \/ \E ok \in BOOLEAN : UpdateReturn(ok)
    \/ UploadFilesReturn
    \/ handleDelete
    \/ \E confirmed \in BOOLEAN : handleDeleteTask(confirmed)
    \/ \E ok \in BOOLEAN : DeleteReturn(ok)
    \/ handleCreate
    \/ \E res \in {"ok", "error", "no data"} : CreateReturn(res)
    \/ \E ok \in BOOLEAN : CreateUploadsReturn(ok)
    \/ CloseModal

\* ------------------------------------------------------------ Layout header

NotifIds == 1..MaxNotifs

\* What the select of fetchNotifications returns: the user's rows, newest
\* first (ids grow with created_at).
RECURSIVE Listing(_, _)
Listing(rws, n) ==
    IF n = 0 THEN <<>>
    ELSE (IF rws[n] = "gone" THEN <<>>
          ELSE << [id |-> n, read |-> (rws[n] = "read")] >>) \o Listing(rws, n - 1)

Listed(list) == {list[i].id : i \in 1..Len(list)}

\* A variant that marks every entry of the list.
MarkedLocalAll(list, id) ==
    [i \in 1..Len(list) |-> [list[i] EXCEPT !.read = TRUE]]

\* prev.map(n => n.id === id ? {...n, read: true} : n)
MarkedLocal(list, id) ==
    [i \in 1..Len(list) |-> IF list[i].id = id THEN [list[i] EXCEPT !.read = TRUE] ELSE list[i]]

\* prev.filter(n => n.id !== id)
RECURSIVE Without(_, _)
Without(list, id) ==
    IF list = <<>> THEN <<>>
    ELSE (IF Head(list).id = id THEN <<>> ELSE <<Head(list)>>) \o Without(Tail(list), id)

Req(op, id) == [op |-> op, id |-> id]

NoMark == [id |-> 0, ok |-> FALSE]

\* The dropdown opens: the isOpen effect calls fetchNotifications.
OpenDropdown ==
    /\ Req("fetch", 0) \notin notifPending
    /\ notifPending' = notifPending \cup {Req("fetch", 0)}
    /\ UNCHANGED <<notifications, notifRows, lastMark>>
    /\ UNCHANGED <<darkMode, darkStored, darkClass, themeMounted, lastSet>>

\* fetchNotifications: the select returned.
FetchNotificationsReturn(ok) ==
    /\ Req("fetch", 0) \in notifPending
    /\ notifPending' = notifPending \ {Req("fetch", 0)}
    /\ notifications' = IF ok THEN Listing(notifRows, MaxNotifs) ELSE notifications
    /\ UNCHANGED <<notifRows, lastMark>>
    /\ UNCHANGED <<darkMode, darkStored, darkClass, themeMounted, lastSet>>

\* The user clicks "mark as read" / "delete" on a listed notification.
NotifClick(op, id) ==
    /\ id \in Listed(notifications)
    /\ Req(op, id) \notin notifPending
    /\ notifPending' = notifPending \cup {Req(op, id)}
    /\ UNCHANGED <<notifications, notifRows, lastMark>>
    /\ UNCHANGED <<darkMode, darkStored, darkClass, themeMounted, lastSet>>

\* markAsRead: update({read: true}).eq('id', id) returned.
markAsRead(id, ok) ==
    /\ Req("mark", id) \in notifPending
    /\ notifPending' = notifPending \ {Req("mark", id)}
    /\ lastMark' = [id |-> id, ok |-> ok]
    /\ IF ok
       THEN /\ notifRows' = IF notifRows[id] = "gone" THEN notifRows
                            ELSE [notifRows EXCEPT ![id] = "read"]
            /\ notifications' = MarkedLocal(notifications, id)
       ELSE UNCHANGED <<notifRows, notifications>>
    /\ UNCHANGED <<darkMode, darkStored, darkClass, themeMounted, lastSet>>

\* deleteNotification: delete().eq('id', id) returned.
deleteNotification(id, ok) ==
    /\ Req("delete", id) \in notifPending
    /\ notifPending' = notifPending \ {Req("delete", id)}
    /\ IF ok
       THEN /\ notifRows' = [notifRows EXCEPT ![id] = "gone"]
            /\ notifications' = Without(notifications, id)
       ELSE UNCHANGED <<notifRows, notifications>>
    /\ UNCHANGED lastMark
    /\ UNCHANGED <<darkMode, darkStored, darkClass, themeMounted, lastSet>>

NoItem == "no item"
NoMode == <<>>

\* String(newDarkMode)
String(b) == IF b THEN "true" ELSE "false"

\* localStorage.getItem('darkMode') === 'true'
isDarkMode(item) == item = "true"

Theme(mode, item, cls) == [darkMode |-> mode, darkStored |-> item, darkClass |-> cls]

\* toggleDarkMode applied to the component state, the stored item and the class.
Toggled(th) == Theme(~th.darkMode, String(~th.darkMode), ~th.darkMode)

\* A variant that does not write the item.
toggleDarkModeUnstored ==
    LET th == Toggled(Theme(darkMode, darkStored, darkClass)) IN
    /\ themeMounted
    /\ darkMode' = th.darkMode
    /\ darkClass' = th.darkClass
    /\ lastSet' = <<th.darkMode>>
    /\ UNCHANGED <<darkStored, themeMounted>>
    /\ UNCHANGED <<notifications, notifRows, notifPending, lastMark>>

toggleDarkMode ==
    LET th == Toggled(Theme(darkMode, darkStored, darkClass)) IN
    /\ themeMounted
    /\ darkMode' = th.darkMode
    /\ darkStored' = th.darkStored
    /\ darkClass' = th.darkClass
    /\ lastSet' = <<th.darkMode>>
    /\ UNCHANGED themeMounted
    /\ UNCHANGED <<notifications, notifRows, notifPending, lastMark>>

\* ThemeToggle mounts (page load): useState(false), then the effect reads the
\* item and sets state and class from it.
ThemeMount ==
    /\ ~themeMounted
    /\ themeMounted' = TRUE
    /\ darkMode' = isDarkMode(darkStored)
    /\ darkClass' = isDarkMode(darkStored)
    /\ UNCHANGED <<darkStored, lastSet>>
    /\ UNCHANGED <<notifications, notifRows, notifPending, lastMark>>

\* The page is left or reloaded: the component state is gone and a new document
\* starts without the class; localStorage stays.
ThemeUnmount ==
    /\ themeMounted
    /\ themeMounted' = FALSE
    /\ darkMode' = FALSE
    /\ darkClass' = FALSE
    /\ UNCHANGED <<darkStored, lastSet>>
    /\ UNCHANGED <<notifications, notifRows, notifPending, lastMark>>

InitHeader ==
    /\ notifications = <<>>
    /\ notifRows = [n \in NotifIds |-> "unread"]
    /\ notifPending = {}
    /\ lastMark = NoMark
    /\ darkMode = FALSE
    /\ darkStored = NoItem
    /\ darkClass = FALSE
    /\ themeMounted = FALSE
    /\ lastSet = NoMode

NextHeader ==
    \/ OpenDropdown
    \/ \E ok \in BOOLEAN : FetchNotificationsReturn(ok)
    \/ \E op \in {"mark", "delete"}, id \in NotifIds : NotifClick(op, id)
    \/ \E id \in NotifIds, ok \in BOOLEAN : markAsRead(id, ok)
    \/ \E id \in NotifIds, ok \in BOOLEAN : deleteNotification(id, ok)
    \/ toggleDarkMode
    \/ ThemeMount
    \/ ThemeUnmount

\* ------------------------------------------------------ useAppSettingsStore

AppNames == {"TaskManager", "n1"}
PrimaryColors == {"#3b82f6", "c1"}
LogoUrls == {Null, "l1"}

\* interface AppSettings, and the rows of app_settings with the same fields.
AppSettings == [appName : AppNames, primaryColor : PrimaryColors, logoUrl : LogoUrls]

\* Partial<AppSettings>: every field may be absent.
PartialSettings ==
    [appName : AppNames \cup {Undefined},
     primaryColor : PrimaryColors \cup {Undefined},
     logoUrl : LogoUrls \cup {Undefined}]

NoRow == 0
NoSettings == [appName |-> Undefined, primaryColor |-> Undefined, logoUrl |-> Undefined]

\* get(): the three settings of the store.
StoreSettings == [appName |-> appName, primaryColor |-> primaryColor, logoUrl |-> logoUrl]

\* A variant that writes the initial values for the fields the argument lacks.
UpdatedSettingsDefaults(settings, store) ==
    [appName      |-> IF settings.appName # Undefined THEN settings.appName ELSE "TaskManager",
     primaryColor |-> IF settings.primaryColor # Undefined THEN settings.primaryColor
                      ELSE "#3b82f6",
     logoUrl      |-> IF settings.logoUrl # Undefined THEN settings.logoUrl ELSE Null]

\* const updatedSettings = { app_name: settings.appName !== undefined ? ... }
UpdatedSettings(settings, store) ==
    [appName      |-> IF settings.appName # Undefined THEN settings.appName ELSE store.appName,
     primaryColor |-> IF settings.primaryColor # Undefined THEN settings.primaryColor
                      ELSE store.primaryColor,
     logoUrl      |-> IF settings.logoUrl # Undefined THEN settings.logoUrl ELSE store.logoUrl]

\* The table after insert([written]) (no row was found) or
\* update(written).eq('id', existing).
Written(table, existing, written) ==
    IF existing = NoRow THEN Append(table, written)
    ELSE [table EXCEPT ![existing] = written]

\* What the backend can answer: no error, the error code PGRST116 ("no rows
\* returned", only when the table is empty), another error.
Replies == {"ok", "PGRST116", "error"}

\* updateSettings is called: set({ loading: true }) and the existence check is sent.
updateSettings(settings) ==
    /\ usPc \in {"idle", "done"}
    /\ usPc' = "check"
    /\ usArg' = settings
    /\ settingsLoading' = TRUE
    /\ existingData' = NoRow
    /\ updatedSettings' = NoSettings
    /\ usReply' = "none"
    /\ usOutcome' = "pending"
    /\ UNCHANGED <<appName, primaryColor, logoUrl, appRows, lsPc>>

\* The existence check select('id').limit(1) returned. An error is rethrown unless
\* its code is PGRST116; otherwise updatedSettings is built and the update
\* (a row was returned) or the insert is sent.
CheckReturn(reply, row) ==
    /\ usPc = "check"
    /\ reply = "PGRST116" => appRows = <<>>
    /\ usReply' = reply
    /\ row \in (IF reply = "ok" /\ appRows # <<>> THEN DOMAIN appRows ELSE {NoRow})
    /\ IF reply = "error"
       THEN /\ usPc' = "done"
            /\ usOutcome' = "rejected"
            /\ settingsLoading' = FALSE
            /\ UNCHANGED <<existingData, updatedSettings>>
       ELSE /\ usPc' = "write"
            /\ existingData' = row
            /\ updatedSettings' = UpdatedSettings(usArg, StoreSettings)
            /\ UNCHANGED <<usOutcome, settingsLoading>>
    /\ UNCHANGED <<appName, primaryColor, logoUrl, appRows, usArg, lsPc>>

\* The update or the insert returned: on an error rethrow, else set the store
\* from updatedSettings; finally set({ loading: false }).
WriteReturn(ok) ==
    /\ usPc = "write"
    /\ usPc' = "done"
    /\ usReply' = IF ok THEN "ok" ELSE "error"
    /\ settingsLoading' = FALSE
    /\ IF ok
       THEN /\ appRows' = Written(appRows, existingData, updatedSettings)
            /\ appName' = updatedSettings.appName
            /\ primaryColor' = updatedSettings.primaryColor
            /\ logoUrl' = updatedSettings.logoUrl
            /\ usOutcome' = "resolved"
       ELSE /\ usOutcome' = "rejected"
            /\ UNCHANGED <<appName, primaryColor, logoUrl, appRows>>
    /\ UNCHANGED <<usArg, existingData, updatedSettings, lsPc>>

\* loadSettings is called: set({ loading: true }) and select('*').single() is sent.
loadSettings ==
    /\ lsPc = "idle"
    /\ lsPc' = "select"
    /\ settingsLoading' = TRUE
    /\ UNCHANGED <<appName, primaryColor, logoUrl, appRows, usPc, usArg, existingData,
                   updatedSettings, usReply, usOutcome>>

\* single() returned: the row when there is exactly one and no error, else an
\* error, on which the store keeps its values.
LoadReturn(ok) ==
    /\ lsPc = "select"
    /\ lsPc' = "idle"
    /\ settingsLoading' = FALSE
    /\ IF ok /\ Len(appRows) = 1
       THEN LET row == appRows[1] IN
            /\ appName' = row.appName
            /\ primaryColor' = row.primaryColor
            /\ logoUrl' = row.logoUrl
       ELSE UNCHANGED <<appName, primaryColor, logoUrl>>
    /\ UNCHANGED <<appRows, usPc, usArg, existingData, updatedSettings, usReply, usOutcome>>

InitSettings ==
    /\ appName = "TaskManager"
    /\ primaryColor = "#3b82f6"
    /\ logoUrl = Null
    /\ settingsLoading = FALSE
    /\ appRows = <<>>
    /\ usPc = "idle"
    /\ usArg = NoSettings
    /\ existingData = NoRow
    /\ updatedSettings = NoSettings
    /\ usReply = "none"
    /\ usOutcome = "pending"
    /\ lsPc = "idle"

NextSettings ==
    \/ \E settings \in PartialSettings : updateSettings(settings)
    \/ \E reply \in Replies, row \in DOMAIN appRows \cup {NoRow} : CheckReturn(reply, row)
    \/ \E ok \in BOOLEAN : WriteReturn(ok)
    \/ loadSettings
    \/ \E ok \in BOOLEAN : LoadReturn(ok)

\* ------------------------- updateSettings in another browser session

\* The settings form of the other session sends all three fields.
OtherSettings == {[appName |-> "n1", primaryColor |-> "c1", logoUrl |-> Null]}

ThisSessionUnchanged ==
    UNCHANGED <<appName, primaryColor, logoUrl, settingsLoading, usPc, usArg, existingData,
                updatedSettings, usReply, usOutcome, lsPc>>

\* updateSettings is called there: its existence check is sent.
OtherUpdateSettings ==
    /\ otherPc = "idle"
    /\ otherPc' = "check"
    /\ otherExisting' = NoRow
    /\ UNCHANGED appRows
    /\ ThisSessionUnchanged

\* Its existence check returned: a row, or none, or an error that ends the call.
OtherCheckReturn(ok, row) ==
    /\ otherPc = "check"
    /\ row \in (IF ok /\ appRows # <<>> THEN DOMAIN appRows ELSE {NoRow})
    /\ otherPc' = IF ok THEN "write" ELSE "idle"
    /\ otherExisting' = row
    /\ UNCHANGED appRows
    /\ ThisSessionUnchanged

\* Its update or insert returned.
OtherWriteReturn(ok, written) ==
    /\ otherPc = "write"
    /\ otherPc' = "idle"
    /\ appRows' = IF ok THEN Written(appRows, otherExisting, written) ELSE appRows
    /\ UNCHANGED otherExisting
    /\ ThisSessionUnchanged

InitSession ==
    /\ otherPc = "idle"
    /\ otherExisting = NoRow

NextSession ==
    \/ OtherUpdateSettings
    \/ \E ok \in BOOLEAN, row \in DOMAIN appRows \cup {NoRow} : OtherCheckReturn(ok, row)
    \/ \E ok \in BOOLEAN, written \in OtherSettings : OtherWriteReturn(ok, written)

\* ------------------------------------------------- Layout's unread counts

\* fetchNotificationCount / fetchMessageCount and the state each one sets.
Counters == {"unreadNotifications", "unreadMessages"}

\* {count: null, error}: no count can be -1.
FetchError == -1

\* What a response carries: the count the backend evaluated, or an error.
Answers == FetchError..MaxUnread

NoAnswers == [a \in Answers |-> 0]

RECURSIVE SumOver(_, _)
SumOver(f, S) ==
    IF S = {} THEN 0
    ELSE LET x == CHOOSE y \in S : TRUE IN f[x] + SumOver(f, S \ {x})

\* Count fetches of Layout that have not resolved yet.
Outstanding == countSent + SumOver(answers, Answers)

\* Layout mounts with a user: the effect calls both fetches and subscribes;
\* the behaviour follows one of the two counts.
LayoutMounts(c) ==
    /\ counter = NoKey
    /\ counter' = c
    /\ countSent' = 1
    /\ UNCHANGED <<unreadRows, feed, answers, shown, fetchFailed>>

\* A row of the user is inserted unread (d = 1) or marked read or deleted
\* (d = -1): the change feed has an event for Layout's subscription.
RowsChange(d) ==
    /\ counter # NoKey
    /\ unreadRows + d \in 0..MaxUnread
    /\ feed < MaxInflight
    /\ unreadRows' = unreadRows + d
    /\ feed' = feed + 1
    /\ UNCHANGED <<counter, countSent, answers, shown, fetchFailed>>

\* The subscription's callback runs: it calls the count fetch.
CountEventDelivered ==
    /\ feed > 0
    /\ Outstanding < MaxInflight
    /\ feed' = feed - 1
    /\ countSent' = countSent + 1
    /\ UNCHANGED <<counter, unreadRows, answers, shown, fetchFailed>>

\* The backend evaluates select('*', {count: 'exact', head: true}) on the rows
\* as they are now, or fails.
CountEvaluated(ok) ==
    /\ countSent > 0
    /\ countSent' = countSent - 1
    /\ LET a == IF ok THEN unreadRows ELSE FetchError IN
       answers' = [answers EXCEPT ![a] = @ + 1]
    /\ UNCHANGED <<counter, unreadRows, feed, shown, fetchFailed>>

\* A response arrives, in any order: setUnread...(count || 0), or the catch
\* block that only logs.
CountResponse(a) ==
    /\ answers[a] > 0
    /\ answers' = [answers EXCEPT ![a] = @ - 1]
    /\ shown' = IF a = FetchError THEN shown ELSE a
    /\ fetchFailed' = (fetchFailed \/ a = FetchError)
    /\ UNCHANGED <<counter, unreadRows, feed, countSent>>

InitCounts ==
    /\ counter = NoKey
    /\ unreadRows = 0
    /\ feed = 0
    /\ countSent = 0
    /\ answers = NoAnswers
    /\ shown = 0
    /\ fetchFailed = FALSE

NextCounts ==
    \/ \E c \in Counters : LayoutMounts(c)
    \/ \E d \in {-1, 1} : RowsChange(d)
    \/ CountEventDelivered
    \/ \E ok \in BOOLEAN : CountEvaluated(ok)
    \/ \E a \in Answers : CountResponse(a)

\* --------------------------------------------------------- Statistics page

\* created_at of the tasks: a year and a month (1..12), months below and above
\* 10 in two years; NoDate is a row without created_at.
Years == {2023, 2024}
Months == {2, 10}
NoDate == <<0, 0>>
Dates == (Years \X Months) \cup {NoDate}

\* Characters of the month keys: the decimal digits are 0..9, '-' is Dash.
Dash == 10

\* The decimal digits of n, as a template literal writes them.
RECURSIVE DigitsOf(_)
DigitsOf(n) == IF n < 10 THEN <<n>> ELSE DigitsOf(n \div 10) \o <<n % 10>>

\* `${date.getFullYear()}-${date.getMonth() + 1}`
monthYear(date) == DigitsOf(date[1]) \o <<Dash>> \o DigitsOf(date[2])

\* a.localeCompare(b) on such keys: character by character, a proper prefix first.
RECURSIVE localeCompare(_, _)
localeCompare(a, b) ==
    IF a = <<>> /\ b = <<>> THEN 0
    ELSE IF a = <<>> THEN -1
    ELSE IF b = <<>> THEN 1
    ELSE IF Head(a) = Head(b) THEN localeCompare(Tail(a), Tail(b))
    ELSE IF Head(a) = Dash THEN -1
    ELSE IF Head(b) = Dash THEN 1
    ELSE IF Head(a) < Head(b) THEN -1 ELSE 1

\* timeStatsMap after the forEach: one entry per key, counting the rows with it.
RECURSIVE timeStatsMap(_)
timeStatsMap(rowsIn) ==
    IF rowsIn = <<>> THEN {}
    ELSE LET rest == timeStatsMap(Tail(rowsIn))
             date == Head(rowsIn)
             old == {e \in rest : e.month = monthYear(date)}
         IN  IF date = NoDate THEN rest
             ELSE IF old = {}
                  THEN rest \cup {[month |-> monthYear(date), count |-> 1, label |-> date]}
                  ELSE (rest \ old) \cup {[e EXCEPT !.count = @ + 1] : e \in old}

\* Array.from(map.values()).sort((a, b) => a.month.localeCompare(b.month))
RECURSIVE SortByMonth(_)
SortByMonth(entries) ==
    IF entries = {} THEN <<>>
    ELSE LET first == CHOOSE e \in entries :
                         \A o \in entries : localeCompare(e.month, o.month) <= 0
         IN  <<first>> \o SortByMonth(entries \ {first})

\* A task is created (created_at defaults to now; imported rows may lack it).
TaskInserted(date) ==
    /\ Len(tasksTable) < MaxTasks
    /\ tasksTable' = Append(tasksTable, date)
    /\ UNCHANGED <<statsData, timeStats>>

\* fetchStatistics: select the tasks and compute timeStats from them.
fetchStatistics ==
    /\ statsData' = tasksTable
    /\ timeStats' = SortByMonth(timeStatsMap(tasksTable))
    /\ UNCHANGED tasksTable

InitStats ==
    /\ tasksTable = <<>>
    /\ statsData = <<>>
    /\ timeStats = <<>>

NextStats ==
    \/ \E date \in Dates : TaskInserted(date)
    \/ fetchStatistics

\* --------------------------------------------------------------- Teams page

\* The signed-in user who creates teams, and the users the search can add.
Creator == "u1"
Candidates == {"u2", "u3"}

TeamNames == {Empty, "team"}

MemberRow(t, u, r) == [team_id |-> t, user_id |-> u, role |-> r]

\* handleCreateTeam is submitted with the form's name and chosen members: a
\* blank name only sets the error; else the insert into teams is sent.
handleCreateTeam(teamName, members) ==
    /\ ctPc = "idle"
    /\ Cardinality(teams) < MaxTeams
    /\ selectedMembers' = members
    /\ IF teamName = Empty
       THEN /\ teamError' = "Team name is required"
            /\ UNCHANGED <<ctPc, teamsLoading>>
       ELSE /\ teamError' = Empty
            /\ teamsLoading' = TRUE
            /\ ctPc' = "teams.insert"
    /\ teamId' = 0
    /\ UNCHANGED <<teams, teamMembers>>

\* catch and finally of handleCreateTeam.
CreateTeamFailed ==
    /\ teamError' = "Failed to create team"
    /\ teamsLoading' = FALSE
    /\ ctPc' = "idle"

\* The insert into teams returned.
TeamInsertReturn(ok) ==
    /\ ctPc = "teams.insert"
    /\ IF ok
       THEN LET id == Cardinality(teams) + 1 IN
            /\ teams' = teams \cup {[id |-> id, created_by |-> Creator]}
            /\ teamId' = id
            /\ ctPc' = IF selectedMembers # {} THEN "members.insert" ELSE "creator.insert"
            /\ UNCHANGED <<teamError, teamsLoading>>
       ELSE /\ CreateTeamFailed
            /\ UNCHANGED <<teams, teamId>>
    /\ UNCHANGED <<teamMembers, selectedMembers>>

\* The insert of the chosen members (role 'member') returned.
MembersInsertReturn(ok) ==
    /\ ctPc = "members.insert"
    /\ IF ok
       THEN /\ teamMembers' =
                 teamMembers \cup {MemberRow(teamId, u, "member") : u \in selectedMembers}
            /\ ctPc' = "creator.insert"
            /\ UNCHANGED <<teamError, teamsLoading>>
       ELSE /\ CreateTeamFailed
            /\ UNCHANGED teamMembers
    /\ UNCHANGED <<teams, teamId, selectedMembers>>

\* The insert of the creator (role 'admin') returned: on success the form is
\* reset and the modal closed.
CreatorInsertReturn(ok) ==
    /\ ctPc = "creator.insert"
    /\ IF ok
       THEN /\ teamMembers' = teamMembers \cup {MemberRow(teamId, Creator, "admin")}
            /\ selectedMembers' = {}
            /\ teamsLoading' = FALSE
            /\ ctPc' = "idle"
            /\ UNCHANGED teamError
       ELSE /\ CreateTeamFailed
            /\ UNCHANGED <<teamMembers, selectedMembers>>
    /\ UNCHANGED <<teams, teamId>>

InitTeams ==
    /\ teams = {}
    /\ teamMembers = {}
    /\ ctPc = "idle"
    /\ teamId = 0
    /\ selectedMembers = {}
    /\ teamError = Empty
    /\ teamsLoading = FALSE

NextTeams ==
    \/ \E teamName \in TeamNames, members \in SUBSET Candidates :
          handleCreateTeam(teamName, members)
    \/ \E ok \in BOOLEAN : TeamInsertReturn(ok)
    \/ \E ok \in BOOLEAN : MembersInsertReturn(ok)
    \/ \E ok \in BOOLEAN : CreatorInsertReturn(ok)

\* --------------------------------------------------------------------- Init

InitAuth ==
    /\ user = NoUser
    /\ loading = TRUE
    /\ session \in {NoSession, "u1"}
    /\ identities = {"u1"}
    /\ profiles = {"u1"}
    /\ location = "/"
    /\ calls = 0
    /\ si = IdleCall
    /\ su = IdleCall
    /\ so = IdleCall
    /\ lu = IdleCall

Init == InitAuth /\ InitUpload /\ InitLive /\ InitTasks /\ InitHeader /\ InitSettings /\ InitStats
        /\ InitCounts
        /\ InitRaces
        /\ InitSession
        /\ InitTeams

NextAuth ==
    \/ SignInCall
    \/ SignInStep
    \/ SignUpCall
    \/ SignUpStep
    \/ SignOutCall
    \/ SignOutReturn
    \/ LoadUserCall
    \/ LoadUserStep
    \/ PrivateRouteRedirect
    \/ OpenPrivatePath

Spec == Init /\ [][NextAuth /\ UNCHANGED <<uploadVars, liveVars, taskVars, headerVars, settingsVars, statsVars,
                               teamsVars,
                               sessionVars,
                               raceVars,
                               countVars>>]_vars

SpecUpload == Init /\ [][NextUpload /\ UNCHANGED <<liveVars, taskVars, headerVars, settingsVars, statsVars,
                               teamsVars,
                               sessionVars,
                               raceVars,
                               countVars>>]_vars

SpecLive == Init /\ [][NextLive /\ UNCHANGED <<taskVars, headerVars, settingsVars, statsVars,
                               teamsVars,
                               sessionVars,
                               raceVars,
                               countVars>>]_vars

SpecTasks ==
    Init /\ [][NextTasks /\ UNCHANGED <<authVars, uploadVars, liveVars, headerVars, settingsVars, statsVars,
                               teamsVars,
                               sessionVars,
                               raceVars,
                               countVars>>]_vars

SpecHeader ==
    Init /\ [][NextHeader
                /\ UNCHANGED <<authVars, uploadVars, liveVars, taskVars, settingsVars, statsVars,
                               teamsVars,
                               sessionVars,
                               raceVars,
                               countVars>>]_vars

SpecSettings ==
    Init /\ [][NextSettings
                /\ UNCHANGED <<authVars, uploadVars, liveVars, taskVars, headerVars,
                               statsVars,
                               teamsVars,
                               sessionVars,
                               raceVars,
                               countVars>>]_vars

SpecStats ==
    Init /\ [][NextStats
                /\ UNCHANGED <<authVars, uploadVars, liveVars, taskVars, headerVars,
                               settingsVars,
                               teamsVars,
                               sessionVars,
                               raceVars,
                               countVars>>]_vars

\* The store of this session and updateSettings calls of another session, on
\* the same table.
\* handleSaveAppSettings passes all three fields of the settings form.
NextSessions ==
    \/ (\E settings \in AppSettings : updateSettings(settings)) /\ UNCHANGED sessionVars
    \/ (\E reply \in Replies, row \in DOMAIN appRows \cup {NoRow} : CheckReturn(reply, row))
          /\ UNCHANGED sessionVars
    \/ (\E ok \in BOOLEAN : WriteReturn(ok)) /\ UNCHANGED sessionVars
    \/ loadSettings /\ UNCHANGED sessionVars
    \/ (\E ok \in BOOLEAN : LoadReturn(ok)) /\ UNCHANGED sessionVars
    \/ NextSession

SpecSessions ==
    Init /\ [][NextSessions
                /\ UNCHANGED <<authVars, uploadVars, liveVars, taskVars, headerVars, statsVars,
                               teamsVars,
                               raceVars,
                               countVars>>]_vars

NextRaces ==
    \/ (NextAuth /\ Recorded /\ UNCHANGED up)
    \/ UpdateProfileCall
    \/ \E ok \in BOOLEAN : UpdateProfileReturn(ok)

\* The session store with updateProfile.
SpecRaces ==
    Init /\ [][NextRaces
                /\ UNCHANGED <<uploadVars, liveVars, taskVars, headerVars, settingsVars,
                               statsVars, teamsVars, sessionVars,
                               countVars>>]_vars

SpecCounts ==
    Init /\ [][NextCounts
                /\ UNCHANGED <<authVars, uploadVars, liveVars, taskVars, headerVars,
                               settingsVars, statsVars, teamsVars, sessionVars,
                               raceVars>>]_vars

SpecTeams ==
    Init /\ [][NextTeams
                /\ UNCHANGED <<authVars, uploadVars, liveVars, taskVars, headerVars,
                               settingsVars, statsVars,
                               sessionVars,
                               raceVars,
                               countVars>>]_vars

\* The event loop runs every continuation whose backend call has returned or
\* whose timer has fired; starting a call is the user's choice.
AuthProgress == SignInStep \/ SignUpStep \/ SignOutReturn \/ LoadUserStep

FairSpec ==
    /\ Spec
    /\ WF_authVars(SignInStep)
    /\ WF_authVars(SignUpStep)
    /\ WF_authVars(SignOutReturn)
    /\ WF_authVars(LoadUserStep)

\* ================================================================== claims

Settles(c, d) == c.pc # "idle" /\ d.pc = "idle"

\* C1: whenever signIn rejects, supabase.auth.signOut has been invoked and the
\* store's user is null when the rejection reaches the caller.
C1_RejectedSignInLeavesNoUser ==
    [][ (Settles(si, si') /\ si'.result.st = "rejected")
          => ("auth.signOut" \in si'.issued /\ user' = NoUser) ]_vars

\* C2: when the profile fetch of signIn has failed MaxRetries times, signIn
\* ends with user = null and rejects with the error of the last failed fetch.
C2_ProfileFailureSurfacesLastError ==
    [][ (Settles(si, si') /\ si.retryCount = MaxRetries)
          => /\ user' = NoUser
             /\ si'.result.st = "rejected"
             /\ si'.result.err.msg = si.lastError.msg ]_vars

\* The attempts of one retry loop: never more than MaxRetries, each new one
\* only after every earlier one failed, with waits of 1 s, 2 s, ... between
\* them and none after the last.
RetryLoopOk(c) ==
    /\ c.attempts <= MaxRetries
    /\ c.retryCount <= c.attempts
    /\ c.pc \in {"fetch", "insert"} => c.attempts = c.retryCount + 1
    /\ c.pc = "sleep" => c.attempts = c.retryCount /\ c.retryCount < MaxRetries
    /\ Len(c.waits) = (IF c.retryCount < MaxRetries THEN c.retryCount ELSE MaxRetries - 1)
    /\ \A i \in 1..Len(c.waits) : c.waits[i] = 1000 * i

RetryBounded == RetryLoopOk(si) /\ RetryLoopOk(su) /\ RetryLoopOk(lu)

\* A call that settled after a successful fetch or insert made no further attempt.
StopsAtFirstSuccess(c, d) ==
    d.attempts > c.attempts => (c.attempts = c.retryCount /\ d.attempts = c.attempts + 1)

\* C3: signIn and loadUser issue at most 3 profile fetches and signUp at most 3
\* profile inserts per call, none after the first success; the wait before
\* attempt n+1 is n seconds and there is none after the last failure; every
\* call terminates.
C3_BoundedRetry ==
    /\ []RetryBounded
    /\ [][ /\ StopsAtFirstSuccess(si, si')
           /\ StopsAtFirstSuccess(su, su')
           /\ StopsAtFirstSuccess(lu, lu') ]_vars
    /\ <>[](si.pc = "idle" /\ su.pc = "idle" /\ lu.pc = "idle")

\* Three failed fetches: two waits, 1 s then 2 s, and the loop has been left.
C3_Witness ==
    /\ si.pc = "signOut" /\ si.attempts = 3 /\ si.waits = <<1000, 2000>>
    /\ su.result.st = "rejected" /\ "profiles.insert" \in su.issued

\* C4: when signUp has created the identity and every profile insert fails,
\* signUp rejects and undoes nothing: the identity stays, no sign-out and no
\* delete is issued, and the store's user is unchanged.
C4_SignUpKeepsIdentity ==
    [][ (su.pc = "insert" /\ Settles(su, su'))
          => \/ su'.result.st = "resolved" /\ su.uid \in profiles'
             \/ /\ su'.result.st = "rejected"
                /\ su.retryCount = MaxRetries - 1
                /\ su.uid \in identities'
                /\ su'.issued = {"auth.signUp", "profiles.insert"}
                /\ user' = user
                /\ session' = session ]_vars

C4_Witness ==
    /\ su.result.st = "rejected"
    /\ "profiles.insert" \in su.issued
    /\ "u2" \in identities
    /\ "u2" \notin profiles

\* C5: when loadUser cannot load the profile of a persisted session (the
\* fetches failed, or an exception was thrown), it has signed the session out
\* and finishes with user = null; it never finishes with loading still true.
C5_LoadUserFailureEndsSignedOut ==
    [][ Settles(lu, lu')
          => /\ loading' = FALSE
             /\ lu.pc \in {"signOut", "catchSignOut"}
                  => ("auth.signOut" \in lu'.issued /\ user' = NoUser) ]_vars

\* C6: signOut never rejects and always ends with user = null, whatever the
\* remote sign-out did; Layout.handleSignOut then navigates to /login.
C6_SignOutAlwaysClears ==
    [][ Settles(so, so')
          => /\ so'.result.st = "resolved"
             /\ user' = NoUser
             /\ so.caller = "Layout.handleSignOut" => location' = "/login" ]_vars

C6_Witness ==
    /\ so.result.st = "resolved"
    /\ so.remote = "throws"
    /\ so.caller = "Layout.handleSignOut"
    /\ location = "/login"
    /\ user = NoUser

\* ----------------------------------------------------------------- uploads

\* The batch has been reported and no pipeline is in flight any more.
UploadSettled == batch \in {"ok", "error"} /\ \A f \in Files : ~InFlight(f)

\* C7: when the upload of file k fails, every other file of the selection that
\* the backend accepts, before or after k, still gets its metadata row, and
\* nothing is rolled back; in every upload path.
C7_SiblingsStillInserted ==
    (UploadSettled /\ \E k \in Files : fpc[k] = "failed" /\ ~storageOk[k])
        => \A f \in Files :
             (storageOk[f] /\ insertRes[f] = "ok") => (f \in stored /\ f \in rows)

\* C8: per file the steps run in the order upload, getPublicUrl, insert; only a
\* file whose bytes were stored gets a row; a batch that reports no error has
\* inserted a row for every selected file.
C8_PerFileContract ==
    /\ \A f \in Files :
         \E n \in 0..3 : flog[f] = SubSeq(<<"upload", "getPublicUrl", "insert">>, 1, n)
    /\ rows \subseteq stored
    /\ batch = "ok" => rows = Files

\* --------------------------------------------------------------- live views

\* An open subscription whose table and filter the event matches, whatever the
\* kind of the event.
Concerns(sub, ev) == sub.table = ev.table /\ FilterMatches(sub, ev)

\* The step delivered the event ev to the open subscriptions.
Delivered(ev) == evTick' # evTick /\ inflight' = Issue(inflight, Triggered(ev))

\* The step started a query for q on behalf of the mounted view.
Fetched(q) ==
    \E r \in inflight' \ inflight : r.what = q.what /\ r.key = q.key /\ r.live

\* The step re-fetched what an event of the subscription affects: the unread
\* count of the user, the messages or the changed message of the task, the
\* contact list of the user and the conversation with the selected contact.
Refetched(sub) ==
    CASE sub.view = Layout /\ sub.table = "notifications" ->
           Fetched(Query("notificationCount", sub.key))
      [] sub.view = Layout /\ sub.table = "messages" ->
           Fetched(Query("messageCount", sub.key))
      [] sub.view = TaskChat ->
           Fetched(Query("chatMessages", sub.key)) \/ Fetched(Query("chatMessageById", sub.key))
      [] sub.view = Messages ->
           /\ Fetched(Query("contacts", sub.key))
           /\ sub.contact # NoKey => Fetched(Query("directMessages", sub.contact))

TornDown(r) ==
    \/ ~mounted[ViewOf(r.what)]
    \/ ~r.live
    \/ r.what \in {"directMessages", "users"} /\ r.key # key[ViewOf(r.what)]

\* C10: a response arriving after its view unmounted or after the effect that
\* issued the query was torn down is not applied to the view's state.
C10_NoTornDownResponseApplied ==
    [][ \A r \in inflight :
          (inflight' = inflight \ {r} /\ TornDown(r)) => data' = data ]_vars

\* The identifiers a subscription of a mounted view is keyed on are the
\* current ones.
Current(sub) ==
    CASE sub.view = Layout   -> sub.key = me /\ sub.key = key[Layout]
      [] sub.view = TaskChat -> sub.key = key[TaskChat]
      [] sub.view = Messages -> sub.key = me /\ sub.contact = key[Messages]

\* C11: every open subscription belongs to a mounted view and is keyed on that
\* view's current user, task or contact; an unmounted view holds none, and none
\* is open for an absent user id.
C11_SubscriptionsFollowView ==
    \A sb \in subs :
        /\ mounted[sb.view]
        /\ sb.key # NoKey
        /\ Current(sb)

\* Layout was mounted and has unmounted (a query of the old instance is still
\* pending) while Messages re-subscribed for another contact.
C11_Witness ==
    /\ ~mounted[Layout]
    /\ \E r \in inflight : ViewOf(r.what) = Layout /\ ~r.live
    /\ mounted[Messages]
    /\ key[Messages] = "b"
    /\ \E sb \in subs : sb.view = Messages /\ sb.contact = "b"

\* The step is a keystroke in the mounted search field.
Keystroke == mounted[Search] /\ mounted'[Search] /\ key'[Search] # key[Search]

\* The step is the end of a quiet period: the pending timer has fired.
QuietPeriodEnds == timer # NoKey /\ timer' = NoKey /\ mounted'[Search]

\* The step issued exactly one query, the search for the given text.
OneSearchIssued(text) ==
    \E r \in inflight' \ inflight :
        /\ r.what = "users" /\ r.key = text /\ r.live
        /\ inflight' = inflight \cup {r}

\* C12: a keystroke replaces the pending timer by one for the new text and
\* issues nothing; when the timer fires, exactly one query is issued, for the
\* text the burst ended with, whatever that text is.
C12_OneQueryPerQuietPeriod ==
    [][ /\ Keystroke => (timer' = key'[Search] /\ inflight' = inflight)
        /\ QuietPeriodEnds => OneSearchIssued(timer) ]_vars

\* -------------------------------------------------------------- task modals

\* No handler of the modal is waiting for the backend.
HandlerSettled == hpc \in {"open", "closed"}

\* C13: on the Tasks page, a create, update or delete that succeeded in the
\* backend has been followed by fetchTasks once the handler has finished.
C13_MutationThenRefetch ==
    (HandlerSettled /\ modal \in {CreateTaskModal, TasksDetailsModal} /\ mutated)
        => refetched

\* C14: an update sent for a worker carries no field but status, in both
\* details modals.
C14_WorkerUpdatesStatusOnly ==
    (sent.op = "update" /\ actor.role = "worker") => sent.fields \subseteq {"status"}

C19_UnchangedFormSendsNothing ==
    (handler = "handleSubmit" /\ form = FormInit(modal, task))
        => /\ sent = NoRequest
           /\ report = IF actor.role = "worker" THEN PermissionUpdate ELSE NoChanges

\* ------------------------------------------------------------ Layout header

\* The step in which the markAsRead call for id returns.
MarkReturned(id) ==
    /\ Req("mark", id) \in notifPending
    /\ notifPending' = notifPending \ {Req("mark", id)}
    /\ lastMark'.id = id

SameMembersAndOrder ==
    /\ Len(notifications') = Len(notifications)
    /\ \A i \in 1..Len(notifications) : notifications'[i].id = notifications[i].id

OthersKeepRead(id) ==
    /\ \A i \in 1..Len(notifications) :
          notifications[i].id # id => notifications'[i] = notifications[i]
    /\ \A j \in NotifIds \ {id} : notifRows'[j] = notifRows[j]

ThatOneRead(id) ==
    /\ notifRows'[id] = (IF notifRows[id] = "gone" THEN "gone" ELSE "read")
    /\ \A i \in 1..Len(notifications) :
          notifications[i].id = id => notifications'[i].read

\* C16: markAsRead(id) changes at most the notification with that id. When it
\* succeeds that notification is read afterwards (in the table, if the row
\* still exists, and in the list), every other notification keeps its read flag
\* in the table and in the list, and the list keeps its members and their
\* order; when the backend reports an error the list and the table are unchanged.
C16_MarkAsReadFrame ==
    [][\A id \in NotifIds :
          MarkReturned(id) =>
             /\ SameMembersAndOrder
             /\ OthersKeepRead(id)
             /\ lastMark'.ok => ThatOneRead(id)
             /\ ~lastMark'.ok => UNCHANGED <<notifications, notifRows,
                               teamsVars,
                               sessionVars,
                               raceVars,
                               countVars>>]_vars

\* A notification was marked read while another listed one is still unread.
C16_Witness ==
    /\ lastMark.ok
    /\ notifRows[lastMark.id] = "read"
    /\ \E i, j \in 1..Len(notifications) :
          /\ notifications[i].id = lastMark.id /\ notifications[i].read
          /\ notifications[j].id # lastMark.id /\ ~notifications[j].read
          /\ notifRows[notifications[j].id] = "unread"

CurrentTheme == Theme(darkMode, darkStored, darkClass)

\* The stored item is the mode the last toggle set.
StoredIsLastSet == lastSet # NoMode => darkStored = String(lastSet[1])

\* A mounted ThemeToggle has its state and the class from the stored item;
\* with nothing stored both are light.
MountedFromStored ==
    themeMounted =>
       /\ darkMode = isDarkMode(darkStored)
       /\ darkClass = isDarkMode(darkStored)
       /\ darkStored = NoItem => ~darkMode /\ ~darkClass

\* C17 as stated: the stored item equals the last-set mode, a (re)mounted
\* toggle takes state and class from the stored item (light when nothing is
\* stored), and two consecutive toggles restore state, stored item and class.
C17_TwoTogglesRestoreAll ==
    /\ StoredIsLastSet
    /\ MountedFromStored
    /\ themeMounted => Toggled(Toggled(CurrentTheme)) = CurrentTheme

\* C17 amended: as above, but two consecutive toggles restore the state, the
\* class and the mode read back from the stored item; the stored item itself
\* is restored only when one was stored before (an absent item becomes 'false').
C17_TwoTogglesRestoreMode ==
    /\ StoredIsLastSet
    /\ MountedFromStored
    /\ themeMounted =>
          LET twice == Toggled(Toggled(CurrentTheme)) IN
          /\ twice.darkMode = darkMode
          /\ twice.darkClass = darkClass
          /\ isDarkMode(twice.darkStored) = isDarkMode(darkStored)
          /\ darkStored # NoItem => twice.darkStored = darkStored

\* Light again after a toggle to dark and a toggle back, item 'false' stored.
C17_Witness ==
    /\ themeMounted
    /\ lastSet = <<FALSE>>
    /\ darkStored = "false"
    /\ ~darkMode /\ ~darkClass

\* ------------------------------------------------------ useAppSettingsStore

\* Steps of the updateSettings call: it builds what it writes, a backend call of
\* it returns, it finishes.
BuildsUpdatedSettings == usPc = "check" /\ usPc' = "write"
BackendReturns == usPc \in {"check", "write"} /\ usPc' # usPc
UpdateSettingsFinishes == usPc # "done" /\ usPc' = "done"

\* What is written has the argument's value for the fields the argument has
\* and the store's current value for the fields it lacks.
AbsentFieldsKept ==
    /\ updatedSettings'.appName =
          (IF usArg.appName = Undefined THEN appName ELSE usArg.appName)
    /\ updatedSettings'.primaryColor =
          (IF usArg.primaryColor = Undefined THEN primaryColor ELSE usArg.primaryColor)
    /\ updatedSettings'.logoUrl =
          (IF usArg.logoUrl = Undefined THEN logoUrl ELSE usArg.logoUrl)

RethrowsAndKeepsStore ==
    /\ UpdateSettingsFinishes
    /\ usOutcome' = "rejected"
    /\ UNCHANGED storeFields

\* C18 as stated: fields absent from the argument keep their store values in
\* what is written; on every backend error (existence check, update, insert)
\* updateSettings rethrows and leaves appName, primaryColor and logoUrl
\* unchanged; loading is false whenever the call finishes.
C18_EveryErrorRethrown ==
    [][/\ BuildsUpdatedSettings => AbsentFieldsKept
       /\ BackendReturns /\ usReply' \in {"PGRST116", "error"} => RethrowsAndKeepsStore
       /\ UpdateSettingsFinishes => ~settingsLoading']_vars

\* C18 amended: as above, except that an error with code PGRST116 from the
\* existence check is not rethrown: the call goes on, with the store unchanged,
\* to build what it writes and to insert it.
C18_ErrorsButNoRowsRethrown ==
    [][/\ BuildsUpdatedSettings => AbsentFieldsKept
       /\ BackendReturns /\ usReply' = "error" => RethrowsAndKeepsStore
       /\ BackendReturns /\ usReply' = "PGRST116" =>
             /\ BuildsUpdatedSettings
             /\ existingData' = NoRow
             /\ usOutcome' = "pending"
             /\ UNCHANGED storeFields
       /\ UpdateSettingsFinishes => ~settingsLoading']_vars

\* A call whose argument lacks logoUrl wrote the store's logo, got an error from
\* the update and was rejected with the store as it was.
C18_Witness ==
    /\ usPc = "done"
    /\ usOutcome = "rejected"
    /\ usReply = "error"
    /\ ~settingsLoading
    /\ usArg.appName \notin {Undefined, appName}
    /\ usArg.logoUrl = Undefined
    /\ updatedSettings.logoUrl = logoUrl
    /\ logoUrl # Null

\* --------------------------------------------------------- Statistics page

StatsDates == {statsData[i] : i \in 1..Len(statsData)} \ {NoDate}
StatsLabels == {timeStats[i].label : i \in 1..Len(timeStats)}

\* Months since year 0: the chronological order of year-months.
Chronological(date) == date[1] * 12 + date[2]

OneEntryPerMonth ==
    /\ StatsLabels = StatsDates
    /\ Len(timeStats) = Cardinality(StatsDates)

CountsTasksOfMonth ==
    \A i \in 1..Len(timeStats) :
       timeStats[i].count =
          Cardinality({k \in 1..Len(statsData) : statsData[k] = timeStats[i].label})

SortedByDate ==
    \A i, j \in 1..Len(timeStats) :
       i < j => Chronological(timeStats[i].label) < Chronological(timeStats[j].label)

\* C20: timeStats has exactly one entry per distinct
\* year-month among the fetched tasks, each count is the number of fetched tasks
\* created in that month, and the entries are in chronological year-month
\* order, for every set of months (months 10-12 next to months 1-9 included).
C20_TimeStatsPerMonthInOrder ==
    OneEntryPerMonth /\ CountsTasksOfMonth /\ SortedByDate

\* --------------------------------------------------------------- Teams page

CreatorIsAdmin(t) == MemberRow(t.id, t.created_by, "admin") \in teamMembers

\* C21: whenever handleCreateTeam is not running (it has finished, in any
\* outcome), every row of teams has a team_members row for its creator with
\* role 'admin'.
C21_CreatorIsAdminOfEveryTeam ==
    ctPc = "idle" => \A t \in teams : CreatorIsAdmin(t)

\* ------------------------- updateSettings in another browser session

\* C22: after any interleaving of updateSettings calls, two calls that both
\* start while app_settings is empty included, the table holds at most one
\* row (so that loadSettings' single() keeps returning the saved settings).
C22_AtMostOneSettingsRow == Len(appRows) <= 1

\* ------------------------------------------------------------ updateProfile

\* C23: once signOut has completed the store's user stays null until a later
\* call signs a user in; an updateProfile call that was in flight when signOut
\* ran does not put a user back.
C23_SignedOutStaysSignedOut == signedOut => user = NoUser

\* C24: when signIn has succeeded while a loadUser call started earlier was in
\* flight, the step in which that loadUser finishes leaves the signed-in user
\* in the store (neither null nor another profile).
C24_LoadUserKeepsSignedInUser ==
    [][LoadUserFinishes /\ overlapped /\ user # NoUser => user' = user]_vars

\* ------------------------------------------------- Layout's unread counts

\* The change feed is quiet and every count fetch has resolved.
CountsQuiet == counter # NoKey /\ feed = 0 /\ Outstanding = 0

\* C25: once the change feed is quiet and every outstanding count fetch has
\* resolved, Layout's count equals the number of unread rows of the user in
\* the backend, for every order in which the responses arrive. Stated for the
\* behaviours in which no count fetch failed.
C25_QuietCountIsBackendCount ==
    CountsQuiet /\ ~fetchFailed => shown = unreadRows

\* ------------------------------------------------------------ Messages page

MessageFetchInFlight == \E r \in inflight : r.what = "directMessages" /\ r.live

\* C26: in the Messages page of a signed-in user, whenever no message fetch is in flight, the
\* displayed list holds only messages between the user and the currently
\* selected contact (or nothing), also after the user switched contacts while
\* the fetch for the first contact was pending.
C26_MessagesOfSelectedContact ==
    mounted[Messages] /\ me # NoKey /\ ~MessageFetchInFlight =>
       data["Messages.messages"] \in {NoKey, key[Messages]}


====
